---- MODULE Spec2Model ----
(***************************************************************************)
(* Prefix-code engine of codinglab: the prefix code tree                   *)
(* (codinglab/encoders/prefix_code_tree.py) and the base prefix coder      *)
(* (codinglab/encoders/prefix_coder.py).                                   *)
(*                                                                         *)
(* A tree is a function from node paths (sequences of channel symbols,     *)
(* the root being <<>>) to TreeNode records.  A node's children are kept   *)
(* as the sequence of their edge labels in dict insertion order; the       *)
(* child along label ch of the node at path p is the node at Append(p,ch). *)
(* A dict (the code table) is the sequence of its items in insertion       *)
(* order.  Positions are 0-based as in the source.                         *)
(*                                                                         *)
(* The fields a subclass of the coder adds (block size, distribution,      *)
(* n-gram probabilities, code lengths) are the record subclass.            *)
(***************************************************************************)
EXTENDS Integers, Sequences, FiniteSets, TLC

VARIABLES state, source_alphabet, channel_alphabet, code_table, tree, subclass, call, ret,
          sender, receiver, logger, objects, runner

vars == <<state, source_alphabet, channel_alphabet, code_table, tree, subclass, call, ret,
          sender, receiver, logger, objects, runner>>

(* The transmission pipeline around a coder *)
pipeline == <<sender, receiver, logger, objects, runner>>

coder == <<state, source_alphabet, channel_alphabet, code_table, tree>>

----------------------------------------------------------------------------
(* Bounds *)

MaxCodeLen == 2
MaxBuildCodeLen == 1
MaxSeqLen == 2
MaxEncodedLen == 3
MaxMsgLen == 2
MaxItems == 3
MaxPairs == 2
MaxSymbols == 3
MaxBlock == 3
MaxNgrams == 64
MaxTextLen == 2

MaxTextSymbols == 2

MaxCompared == 4

----------------------------------------------------------------------------
(* Values *)

None == "None"

BinaryAlphabet == <<"0", "1">>

SourceSymbols == <<"A", "B">>

Range(s) == {s[i] : i \in 1..Len(s)}

SeqsUpTo(S, n) == UNION {[1..k -> S] : k \in 0..n}

Codes == SeqsUpTo(Range(BinaryAlphabet), MaxCodeLen)

Sequences == SeqsUpTo(Range(BinaryAlphabet), MaxSeqLen)

EncodedSequences == SeqsUpTo(Range(BinaryAlphabet), MaxEncodedLen)

Messages == SeqsUpTo(Range(SourceSymbols), MaxMsgLen)

BuildCodes == SeqsUpTo(Range(BinaryAlphabet), MaxBuildCodeLen)

Items == [key : Range(SourceSymbols), code : BuildCodes]

ItemLists == SeqsUpTo(Items, MaxItems)

(* TLC evaluates the argument of an operator when the operator first uses  *)
(* it.  Now(v) is TRUE for every v and makes TLC evaluate v at that point: *)
(* a loop that tests Now of its accumulator computes it step by step, as   *)
(* the source does, instead of as one nested expression at the end.        *)
Now(v) == v = v

IsPrefix(a, b) == Len(a) <= Len(b) /\ SubSeq(b, 1, Len(a)) = a

IsProperPrefix(a, b) == Len(a) < Len(b) /\ IsPrefix(a, b)

----------------------------------------------------------------------------
(* TreeNode and PrefixCodeTree *)

TreeNode == [value |-> None, children |-> <<>>]

NoTree == <<>>

EmptyTree == (<<>> :> TreeNode)

HasChild(t, node, char) == \E i \in 1..Len(t[node].children) : t[node].children[i] = char

leaf(t, node) == Len(t[node].children) = 0

StoredCodes(t) == {node \in DOMAIN t : t[node].value # None}

(* InsertWalk that creates the child before testing the node it left *)
RECURSIVE InsertWalkTestingParent(_, _, _, _, _)
InsertWalkTestingParent(t, code, symbol, i, node) ==
  IF i > Len(code)
  THEN IF Len(t[node].children) > 0 \/ t[node].value # None
       THEN [tree |-> t, outcome |-> "PrefixConflict"]
       ELSE [tree |-> [t EXCEPT ![node].value = symbol], outcome |-> "ok"]
  ELSE LET char == code[i]
           child == Append(node, char)
           t1 == IF HasChild(t, node, char)
                 THEN t
                 ELSE [t EXCEPT ![node].children = Append(@, char)] @@ (child :> TreeNode)
       IN  IF t[node].value # None
           THEN [tree |-> t1, outcome |-> "PrefixConflict"]
           ELSE InsertWalkTestingParent(t1, code, symbol, i + 1, child)

RECURSIVE InsertWalk(_, _, _, _, _)
InsertWalk(t, code, symbol, i, node) ==
  IF i > Len(code)
  THEN IF Len(t[node].children) > 0
       THEN [tree |-> t, outcome |-> "PrefixConflict"]
       ELSE [tree |-> [t EXCEPT ![node].value = symbol], outcome |-> "ok"]
  ELSE LET char == code[i]
           child == Append(node, char)
           t1 == IF HasChild(t, node, char)
                 THEN t
                 ELSE [t EXCEPT ![node].children = Append(@, char)] @@ (child :> TreeNode)
       IN  IF t1[child].value # None
           THEN [tree |-> t1, outcome |-> "PrefixConflict"]
           ELSE InsertWalk(t1, code, symbol, i + 1, child)

insert_code(t, code, symbol) == InsertWalk(t, code, symbol, 1, <<>>)

(* DecodeWalk that follows only the edge that was inserted first at a node *)
RECURSIVE DecodeWalkFirstEdge(_, _, _, _)
DecodeWalkFirstEdge(t, sequence, position, node) ==
  IF leaf(t, node)
  THEN [outcome |-> "ok", symbol |-> t[node].value, position |-> position]
  ELSE IF position >= Len(sequence)
  THEN [outcome |-> "IncompleteSequence", symbol |-> None, position |-> position]
  ELSE LET current_symbol == sequence[position + 1]
       IN  IF t[node].children[1] # current_symbol
           THEN [outcome |-> "SymbolNotInTree", symbol |-> None, position |-> position]
           ELSE DecodeWalkFirstEdge(t, sequence, position + 1, Append(node, current_symbol))

RECURSIVE DecodeWalk(_, _, _, _)
DecodeWalk(t, sequence, position, node) ==
  IF leaf(t, node)
  THEN [outcome |-> "ok", symbol |-> t[node].value, position |-> position]
  ELSE IF position >= Len(sequence)
  THEN [outcome |-> "IncompleteSequence", symbol |-> None, position |-> position]
  ELSE LET current_symbol == sequence[position + 1]
       IN  IF ~HasChild(t, node, current_symbol)
           THEN [outcome |-> "SymbolNotInTree", symbol |-> None, position |-> position]
           ELSE DecodeWalk(t, sequence, position + 1, Append(node, current_symbol))

tree_decode(t, sequence, position) == DecodeWalk(t, sequence, position, <<>>)

----------------------------------------------------------------------------
(* Call records *)

NoCall == [op |-> "none", variant |-> "none", chan |-> <<>>, src |-> <<>>,
           symbol |-> None, position |-> 0, n |-> 0, probabilities |-> <<>>]

NoSubclass == [kind |-> "none"]

NoRet == [outcome |-> "none", chan |-> <<>>, src |-> <<>>, symbol |-> None, position |-> 0]

(* No pipeline around the coder *)
NoPart == [kind |-> "none"]

NoPipeline ==
  /\ sender = NoPart
  /\ receiver = NoPart
  /\ logger = NoPart
  /\ objects = <<>>
  /\ runner = NoPart

----------------------------------------------------------------------------
(* A PrefixCodeTree used on its own: insert_code and decode calls *)

TreeInit ==
  /\ state = "Tree"
  /\ source_alphabet = <<>>
  /\ channel_alphabet = <<>>
  /\ code_table = <<>>
  /\ tree = EmptyTree
  /\ subclass = NoSubclass
  /\ call = NoCall
  /\ ret = NoRet
  /\ NoPipeline

InsertCode(code, symbol) ==
  /\ state = "Tree"
  /\ Cardinality(StoredCodes(tree)) < MaxItems
  /\ LET r == insert_code(tree, code, symbol)
     IN  /\ tree' = r.tree
         /\ call' = [NoCall EXCEPT !.op = "insert_code", !.chan = code, !.symbol = symbol]
         /\ ret' = [NoRet EXCEPT !.outcome = r.outcome]
  /\ UNCHANGED <<state, source_alphabet, channel_alphabet, code_table, subclass>>
  /\ UNCHANGED pipeline

TreeDecode(sequence, position) ==
  /\ state = "Tree"
  /\ LET r == tree_decode(tree, sequence, position)
     IN  /\ call' = [NoCall EXCEPT !.op = "tree_decode", !.chan = sequence, !.position = position]
         /\ ret' = [NoRet EXCEPT !.outcome = r.outcome, !.symbol = r.symbol, !.position = r.position]
  /\ UNCHANGED <<state, source_alphabet, channel_alphabet, code_table, tree, subclass>>
  /\ UNCHANGED pipeline

TreeNext ==
  \/ \E code \in Codes, symbol \in Range(SourceSymbols) : InsertCode(code, symbol)
  \/ \E sequence \in Sequences : \E position \in 0..Len(sequence) : TreeDecode(sequence, position)

SpecTree == TreeInit /\ [][TreeNext]_vars

(* The same tree with insert_code calls only *)
InsertNext == \E code \in Codes, symbol \in Range(SourceSymbols) : InsertCode(code, symbol)

SpecInsert == TreeInit /\ [][InsertNext]_vars

----------------------------------------------------------------------------
(* Dicts: sequences of [key, code] items in insertion order, keys unique *)

DictHas(d, k) == \E i \in 1..Len(d) : d[i].key = k

DictGet(d, k) == d[CHOOSE i \in 1..Len(d) : d[i].key = k].code

DictSet(d, k, v) ==
  IF DictHas(d, k)
  THEN [i \in 1..Len(d) |-> IF d[i].key = k THEN [key |-> k, code |-> v] ELSE d[i]]
  ELSE Append(d, [key |-> k, code |-> v])

RECURSIVE DictFromItems(_, _, _)
DictFromItems(items, i, d) ==
  IF i > Len(items) THEN d
  ELSE LET assigned == DictSet(d, items[i].key, items[i].code)
       IN  IF Now(assigned) THEN DictFromItems(items, i + 1, assigned) ELSE assigned

----------------------------------------------------------------------------
(* PrefixEncoderDecoder *)

RECURSIVE InsertItems(_, _, _)
InsertItems(t, items, i) ==
  IF i > Len(items) THEN [tree |-> t, outcome |-> "ok"]
  ELSE LET r == insert_code(t, items[i].code, items[i].key)
       IN  IF r.outcome # "ok" THEN r ELSE InsertItems(r.tree, items, i + 1)

(* build_tree_from_table whose loop starts at the second item of the table *)
build_tree_from_table_from_second(table, t) ==
  IF Len(table) = 0
  THEN [tree |-> t, outcome |-> "BuildIncomplete"]
  ELSE InsertItems(EmptyTree, table, 2)

build_tree_from_table(table, t) ==
  IF Len(table) = 0
  THEN [tree |-> t, outcome |-> "BuildIncomplete"]
  ELSE InsertItems(EmptyTree, table, 1)

RECURSIVE collect_codes_from_node(_, _, _, _)
RECURSIVE CollectChildren(_, _, _, _, _)
collect_codes_from_node(t, node, current_code, table) ==
  LET stored == IF t[node].value # None
                THEN DictSet(table, t[node].value, current_code)
                ELSE table
  IN  CollectChildren(t, node, current_code, 1, stored)

CollectChildren(t, node, current_code, i, table) ==
  IF i > Len(t[node].children) THEN table
  ELSE LET char == t[node].children[i]
           collected == collect_codes_from_node(t, Append(node, char),
                                                Append(current_code, char), table)
       IN  IF Now(collected)
           THEN CollectChildren(t, node, current_code, i + 1, collected)
           ELSE collected

build_table_from_tree(table, t) ==
  IF t = NoTree
  THEN [code_table |-> table, outcome |-> "BuildIncomplete"]
  ELSE [code_table |-> collect_codes_from_node(t, <<>>, <<>>, <<>>), outcome |-> "ok"]

(* The build step a subclass supplies.  "tree": a new tree filled by       *)
(* insert_code calls; "table": the table is assigned and the subclass      *)
(* calls _build_tree_from_table; "table_only": the table is assigned and   *)
(* no helper is called; "pass": the step does nothing.                     *)
BuildVariants == {"tree", "table", "table_only", "pass"}

build_prefix_code_tree(variant, items) ==
  CASE variant = "tree" ->
         LET r == InsertItems(EmptyTree, items, 1)
         IN  [code_table |-> <<>>, tree |-> r.tree, outcome |-> r.outcome]
    [] variant = "table" ->
         LET table == DictFromItems(items, 1, <<>>)
             r == build_tree_from_table(table, NoTree)
         IN  [code_table |-> table, tree |-> r.tree, outcome |-> r.outcome]
    [] variant = "table_only" ->
         [code_table |-> DictFromItems(items, 1, <<>>), tree |-> NoTree, outcome |-> "ok"]
    [] OTHER ->
         [code_table |-> <<>>, tree |-> NoTree, outcome |-> "ok"]

Unbuilt(st, outcome) ==
  [state |-> st, source_alphabet |-> <<>>, channel_alphabet |-> <<>>,
   code_table |-> <<>>, tree |-> NoTree, outcome |-> outcome]

(* init with a base that builds the tree from the table when the build     *)
(* step left a table and no tree.                                          *)
init_deriving_tree(source_alphabet_, channel_alphabet_, variant, items) ==
  IF Len(source_alphabet_) = 0 THEN Unbuilt("Failed", "EmptyAlphabet")
  ELSE IF Len(channel_alphabet_) = 0 THEN Unbuilt("Failed", "EmptyAlphabet")
  ELSE LET b0 == build_prefix_code_tree(variant, items)
           d == build_tree_from_table(b0.code_table, b0.tree)
           b == IF b0.outcome = "ok" /\ b0.tree = NoTree /\ Len(b0.code_table) > 0
                THEN [b0 EXCEPT !.tree = d.tree, !.outcome = d.outcome]
                ELSE b0
           r == build_table_from_tree(b.code_table, b.tree)
           set == [Unbuilt("Failed", b.outcome) EXCEPT
                     !.source_alphabet = source_alphabet_,
                     !.channel_alphabet = channel_alphabet_,
                     !.code_table = b.code_table,
                     !.tree = b.tree]
       IN  IF b.outcome # "ok" THEN set
           ELSE IF r.outcome # "ok" THEN [set EXCEPT !.outcome = r.outcome]
           ELSE [set EXCEPT !.state = "TableAndTreeConsistent",
                            !.code_table = r.code_table,
                            !.outcome = "ok"]

init(source_alphabet_, channel_alphabet_, variant, items) ==
  IF Len(source_alphabet_) = 0 THEN Unbuilt("Failed", "EmptyAlphabet")
  ELSE IF Len(channel_alphabet_) = 0 THEN Unbuilt("Failed", "EmptyAlphabet")
  ELSE LET b == build_prefix_code_tree(variant, items)
           r == build_table_from_tree(b.code_table, b.tree)
           set == [Unbuilt("Failed", b.outcome) EXCEPT
                     !.source_alphabet = source_alphabet_,
                     !.channel_alphabet = channel_alphabet_,
                     !.code_table = b.code_table,
                     !.tree = b.tree]
       IN  IF b.outcome # "ok" THEN set
           ELSE IF r.outcome # "ok" THEN [set EXCEPT !.outcome = r.outcome]
           ELSE [set EXCEPT !.state = "TableAndTreeConsistent",
                            !.code_table = r.code_table,
                            !.outcome = "ok"]

(* EncodeLoop with each codeword put in front of the output instead of     *)
(* after it.                                                               *)
RECURSIVE EncodeLoopPrepend(_, _, _, _)
EncodeLoopPrepend(table, message, i, encoded) ==
  IF i > Len(message) THEN [outcome |-> "ok", chan |-> encoded]
  ELSE IF ~DictHas(table, message[i]) THEN [outcome |-> "UnknownSymbol", chan |-> <<>>]
  ELSE EncodeLoopPrepend(table, message, i + 1, DictGet(table, message[i]) \o encoded)

RECURSIVE EncodeLoop(_, _, _, _)
EncodeLoop(table, message, i, encoded) ==
  IF i > Len(message) THEN [outcome |-> "ok", chan |-> encoded]
  ELSE IF ~DictHas(table, message[i]) THEN [outcome |-> "UnknownSymbol", chan |-> <<>>]
  ELSE EncodeLoop(table, message, i + 1, encoded \o DictGet(table, message[i]))

encode(table, message) ==
  IF Len(table) = 0 THEN [outcome |-> "TableNotBuilt", chan |-> <<>>]
  ELSE EncodeLoop(table, message, 1, <<>>)

(* The while loop of decode.  When the tree's decode returns a symbol      *)
(* without advancing the position, the next iteration starts from the same *)
(* position with the same tree and the loop never exits: the call neither  *)
(* returns nor raises ("NonTermination").                                  *)
(* DecodeLoop that puts each decoded symbol in front of the list *)
RECURSIVE DecodeLoopPrepending(_, _, _, _)
DecodeLoopPrepending(t, encoded, position, decoded) ==
  IF ~(position < Len(encoded)) THEN [outcome |-> "ok", src |-> decoded]
  ELSE LET r == tree_decode(t, encoded, position)
       IN  IF r.outcome # "ok" THEN [outcome |-> "DecodeFailure", src |-> <<>>]
           ELSE IF r.symbol = None THEN [outcome |-> "DecodeFailure", src |-> <<>>]
           ELSE IF r.position = position THEN [outcome |-> "NonTermination", src |-> <<>>]
           ELSE DecodeLoopPrepending(t, encoded, r.position, <<r.symbol>> \o decoded)

RECURSIVE DecodeLoop(_, _, _, _)
DecodeLoop(t, encoded, position, decoded) ==
  IF ~(position < Len(encoded)) THEN [outcome |-> "ok", src |-> decoded]
  ELSE LET r == tree_decode(t, encoded, position)
       IN  IF r.outcome # "ok" THEN [outcome |-> "DecodeFailure", src |-> <<>>]
           ELSE IF r.symbol = None THEN [outcome |-> "DecodeFailure", src |-> <<>>]
           ELSE IF r.position = position THEN [outcome |-> "NonTermination", src |-> <<>>]
           ELSE DecodeLoop(t, encoded, r.position, Append(decoded, r.symbol))

decode(t, encoded) ==
  IF t = NoTree THEN [outcome |-> "TreeNotBuilt", src |-> <<>>]
  ELSE DecodeLoop(t, encoded, 0, <<>>)

----------------------------------------------------------------------------
(* A coder: construction, then encode and decode calls *)

CoderInit ==
  /\ state = "Uninitialized"
  /\ source_alphabet = <<>>
  /\ channel_alphabet = <<>>
  /\ code_table = <<>>
  /\ tree = NoTree
  /\ subclass = NoSubclass
  /\ call = NoCall
  /\ ret = NoRet
  /\ NoPipeline

Construct(source_alphabet_, channel_alphabet_, variant, items) ==
  /\ state = "Uninitialized"
  /\ LET r == init(source_alphabet_, channel_alphabet_, variant, items)
     IN  /\ state' = r.state
         /\ source_alphabet' = r.source_alphabet
         /\ channel_alphabet' = r.channel_alphabet
         /\ code_table' = r.code_table
         /\ tree' = r.tree
         /\ call' = [NoCall EXCEPT !.op = "init", !.variant = variant]
         /\ ret' = [NoRet EXCEPT !.outcome = r.outcome]
  /\ UNCHANGED subclass
  /\ UNCHANGED pipeline

(* Encode that looks codewords up with a default: a symbol with no table   *)
(* entry is entered into the table with an empty codeword instead of       *)
(* raising.                                                                *)
RECURSIVE SetDefaults(_, _, _)
SetDefaults(table, message, i) ==
  IF i > Len(message) THEN table
  ELSE IF DictHas(table, message[i]) THEN SetDefaults(table, message, i + 1)
  ELSE SetDefaults(DictSet(table, message[i], <<>>), message, i + 1)

EncodeSetDefault(message) ==
  /\ state = "TableAndTreeConsistent"
  /\ LET filled == IF Len(code_table) = 0 THEN code_table
                   ELSE SetDefaults(code_table, message, 1)
         r == encode(filled, message)
     IN  /\ code_table' = filled
         /\ call' = [NoCall EXCEPT !.op = "encode", !.src = message]
         /\ ret' = [NoRet EXCEPT !.outcome = r.outcome, !.chan = r.chan]
  /\ UNCHANGED <<state, source_alphabet, channel_alphabet, tree, subclass>>
  /\ UNCHANGED pipeline

Encode(message) ==
  /\ state = "TableAndTreeConsistent"
  /\ LET r == encode(code_table, message)
     IN  /\ call' = [NoCall EXCEPT !.op = "encode", !.src = message]
         /\ ret' = [NoRet EXCEPT !.outcome = r.outcome, !.chan = r.chan]
  /\ UNCHANGED <<coder, subclass>>
  /\ UNCHANGED pipeline

Decode(encoded) ==
  /\ state = "TableAndTreeConsistent"
  /\ LET r == decode(tree, encoded)
     IN  /\ call' = [NoCall EXCEPT !.op = "decode", !.chan = encoded]
         /\ ret' = [NoRet EXCEPT !.outcome = r.outcome, !.src = r.src]
  /\ UNCHANGED <<coder, subclass>>
  /\ UNCHANGED pipeline

Alphabets(alphabet) == {<<>>, alphabet}

Constructing ==
  /\ state = "Uninitialized"
  /\ \E source_alphabet_ \in Alphabets(SourceSymbols), channel_alphabet_ \in Alphabets(BinaryAlphabet) :
       \E variant \in BuildVariants, items \in ItemLists :
         Construct(source_alphabet_, channel_alphabet_, variant, items)

Encoding ==
  /\ state = "TableAndTreeConsistent"
  /\ \E message \in Messages : Encode(message)

Decoding ==
  /\ state = "TableAndTreeConsistent"
  /\ \E encoded \in EncodedSequences : Decode(encoded)

CoderNext == Constructing \/ Encoding \/ Decoding

SpecCoder == CoderInit /\ [][CoderNext]_vars

----------------------------------------------------------------------------
(* A coder whose decode call is followed through its while loop, one       *)
(* iteration at a time.  While the call runs, state is "Decoding", and ret *)
(* holds the loop's variables: position and the list decoded (src).        *)

MaxDecoded == 4

DecodeEnter(encoded) ==
  /\ state = "TableAndTreeConsistent"
  /\ call' = [NoCall EXCEPT !.op = "decode", !.chan = encoded]
  /\ IF tree = NoTree
     THEN state' = state /\ ret' = [NoRet EXCEPT !.outcome = "TreeNotBuilt"]
     ELSE state' = "Decoding" /\ ret' = NoRet
  /\ UNCHANGED <<source_alphabet, channel_alphabet, code_table, tree, subclass>>
  /\ UNCHANGED pipeline

DecodeReturn ==
  /\ state = "Decoding"
  /\ ~(ret.position < Len(call.chan))
  /\ state' = "TableAndTreeConsistent"
  /\ ret' = [ret EXCEPT !.outcome = "ok"]
  /\ UNCHANGED <<source_alphabet, channel_alphabet, code_table, tree, subclass, call>>
  /\ UNCHANGED pipeline

DecodeIterate ==
  /\ state = "Decoding"
  /\ ret.position < Len(call.chan)
  /\ Len(ret.src) < MaxDecoded
  /\ LET r == tree_decode(tree, call.chan, ret.position)
     IN  IF r.outcome # "ok" \/ r.symbol = None
         THEN /\ state' = "TableAndTreeConsistent"
              /\ ret' = [NoRet EXCEPT !.outcome = "DecodeFailure"]
         ELSE /\ state' = "Decoding"
              /\ ret' = [ret EXCEPT !.position = r.position, !.src = Append(@, r.symbol)]
  /\ UNCHANGED <<source_alphabet, channel_alphabet, code_table, tree, subclass, call>>
  /\ UNCHANGED pipeline

DecodeEntering ==
  /\ state = "TableAndTreeConsistent"
  /\ \E encoded \in EncodedSequences : DecodeEnter(encoded)

DecodeLoopNext == Constructing \/ DecodeEntering \/ DecodeIterate \/ DecodeReturn

SpecDecodeLoop == CoderInit /\ [][DecodeLoopNext]_vars

----------------------------------------------------------------------------
(* A coder whose callers also use the object the tree accessor returns.    *)
(* The property returns the coder's own PrefixCodeTree, so insert_code on  *)
(* the returned object is insert_code on the coder's _tree field.          *)

TreeInsertCode(code, symbol) ==
  /\ state = "TableAndTreeConsistent"
  /\ Cardinality(StoredCodes(tree)) < MaxItems
  /\ LET r == insert_code(tree, code, symbol)
     IN  /\ tree' = r.tree
         /\ call' = [NoCall EXCEPT !.op = "tree.insert_code", !.chan = code, !.symbol = symbol]
         /\ ret' = [NoRet EXCEPT !.outcome = r.outcome]
  /\ UNCHANGED <<state, source_alphabet, channel_alphabet, code_table, subclass>>
  /\ UNCHANGED pipeline

TreeInserting ==
  /\ state = "TableAndTreeConsistent"
  /\ \E code \in Codes, symbol \in Range(SourceSymbols) : TreeInsertCode(code, symbol)

AccessNext == Constructing \/ Encoding \/ Decoding \/ TreeInserting

SpecAccess == CoderInit /\ [][AccessNext]_vars

----------------------------------------------------------------------------
(* Numbers of the coders built from a probability distribution.            *)
(*                                                                         *)
(* A probability is a whole number of tenths, One being 1.0; arithmetic on *)
(* probabilities is exact.  The padding probability pad_p = 1e-10 is far   *)
(* below every difference between two sums of products of tenths that the  *)
(* model forms.  With x[k] = (1 - pad_p)^(n-k) * pad_p^k, the probability  *)
(* of an n-gram with k padding symbols is c * x[k] / total^n for a whole   *)
(* number c, and every sum of such probabilities is                        *)
(* (c[0]*x[0] + ... + c[n]*x[n]) / total^n.  Such a quantity is kept as    *)
(* the vector c, and two of them compare as their vectors do, the          *)
(* coefficient of x[0] first.                                              *)
(*                                                                         *)
(* The source computes in doubles.  Two heap entries whose probabilities   *)
(* are equal here can differ there in the last bit, and are then popped in *)
(* the order of their rounded values, not of their counters: the source's  *)
(* table can give two subtrees of equal probability each other's codeword  *)
(* lengths.  The expected code length is the same in both.                 *)

One == 10

AbsTolInverse == 1000000

PAD == "__PAD__"

DistributionSymbols == <<"a", "b", "c", "d">>

ProbabilityValues == {-2, 0, 1, 2, 3, 5, 7, 8, 10}

(* A distribution: the dict symbol -> probability, in insertion order *)
Distributions ==
  UNION {{[i \in 1..k |-> [symbol |-> DistributionSymbols[i], p |-> w[i]]] :
            w \in [1..k -> ProbabilityValues]} : k \in 0..MaxSymbols}

BlockSizes == -1..MaxBlock

RECURSIVE Sum(_, _)
Sum(probabilities, i) ==
  IF i > Len(probabilities) THEN 0 ELSE probabilities[i].p + Sum(probabilities, i + 1)

RECURSIVE Power(_, _)
Power(b, e) == IF e <= 0 THEN 1 ELSE b * Power(b, e - 1)

Abs(x) == IF x < 0 THEN 0 - x ELSE x

(* math.isclose(total, 1.0, abs_tol=1e-6) for a total counted in 1 / unit *)
isclose(total, unit) == Abs(total - unit) <= unit \div AbsTolInverse

isclose_one_fifth(total) == Abs(total - One) * 5 <= One

(* math.isclose(total, 1.0, abs_tol=1e-6); the relative tolerance 1e-9 of  *)
(* isclose is below the absolute one for every total that passes.          *)
isclose_one(total) == isclose(total, One)

ZeroVec(n) == [k \in 0..n |-> 0]

VecAdd(a, b) == [k \in DOMAIN a |-> a[k] + b[k]]

VecScale(a, m) == [k \in DOMAIN a |-> a[k] * m]

VecLess(a, b) ==
  \E k \in DOMAIN a : a[k] < b[k] /\ \A j \in DOMAIN a : j < k => a[j] = b[j]

----------------------------------------------------------------------------
(* HuffmanNgramCoder *)

Keys(probabilities) == [i \in 1..Len(probabilities) |-> probabilities[i].symbol]

UnextendedKeys(probabilities) == Keys(probabilities)

(* p_ext.keys(): the symbols of the distribution, then PAD *)
ExtendedKeys(probabilities) == Append(Keys(probabilities), PAD)

(* itertools.product(keys, repeat=n), in its order *)
RECURSIVE Product(_, _)
Product(keys, n) ==
  IF n = 0 THEN << <<>> >>
  ELSE LET rest == Product(keys, n - 1)
       IN  [idx \in 1..(Len(keys) * Len(rest)) |->
              <<keys[((idx - 1) \div Len(rest)) + 1]>> \o rest[((idx - 1) % Len(rest)) + 1]]

PadCount(ngram) == Cardinality({i \in 1..Len(ngram) : ngram[i] = PAD})

Weight(probabilities, sym) ==
  probabilities[CHOOSE i \in 1..Len(probabilities) : probabilities[i].symbol = sym].p

RECURSIVE WeightProduct(_, _, _)
WeightProduct(probabilities, ngram, i) ==
  IF i > Len(ngram) THEN 1
  ELSE (IF ngram[i] = PAD THEN 1 ELSE Weight(probabilities, ngram[i]))
         * WeightProduct(probabilities, ngram, i + 1)

(* prob = product of p_ext[sym], as a coefficient vector over total^n *)
NgramProbability(probabilities, total, n, ngram) ==
  [k \in 0..n |-> IF k = PadCount(ngram)
                  THEN WeightProduct(probabilities, ngram, 1) * Power(total, k)
                  ELSE 0]

ngram_p(probabilities, total, n) ==
  LET ngrams == Product(ExtendedKeys(probabilities), n)
  IN  [i \in 1..Len(ngrams) |->
         [key |-> ngrams[i], prob |-> NgramProbability(probabilities, total, n, ngrams[i])]]

(* Heap entries are (prob, counter, table) tuples; heappop returns the     *)
(* least one, probabilities first and counters on a tie.                   *)
EntryGreater(e1, e2) ==
  \/ VecLess(e2.prob, e1.prob)
  \/ e1.prob = e2.prob /\ e1.counter > e2.counter

EntryLess(e1, e2) ==
  \/ VecLess(e1.prob, e2.prob)
  \/ e1.prob = e2.prob /\ e1.counter < e2.counter

RECURSIVE GreatestIndex(_, _, _)
GreatestIndex(heap, i, best) ==
  IF i > Len(heap) THEN best
  ELSE IF EntryLess(heap[best], heap[i]) THEN GreatestIndex(heap, i + 1, i)
  ELSE GreatestIndex(heap, i + 1, best)

RECURSIVE LeastIndex(_, _, _)
LeastIndex(heap, i, best) ==
  IF i > Len(heap) THEN best
  ELSE IF EntryLess(heap[i], heap[best]) THEN LeastIndex(heap, i + 1, i)
  ELSE LeastIndex(heap, i + 1, best)

Remove(heap, i) == SubSeq(heap, 1, i - 1) \o SubSeq(heap, i + 1, Len(heap))

PrependAllOnes(bit, table) ==
  IF bit = "0" THEN table
  ELSE [i \in 1..Len(table) |-> [key |-> table[i].key, code |-> <<bit>> \o table[i].code]]

PrependAll(bit, table) ==
  [i \in 1..Len(table) |-> [key |-> table[i].key, code |-> <<bit>> \o table[i].code]]

RECURSIVE HuffmanMerge(_, _)
HuffmanMerge(heap, counter) ==
  IF ~(Len(heap) > 1) THEN heap
  ELSE LET i0 == LeastIndex(heap, 2, 1)
           e0 == heap[i0]
           h0 == Remove(heap, i0)
           i1 == LeastIndex(h0, 2, 1)
           e1 == h0[i1]
           h1 == Remove(h0, i1)
           merged == PrependAll("0", e0.table) \o PrependAll("1", e1.table)
       IN  HuffmanMerge(Append(h1, [prob |-> VecAdd(e0.prob, e1.prob),
                                    counter |-> counter,
                                    table |-> merged]),
                        counter + 1)

(* The code table HuffmanNgramCoder._build_prefix_code_tree assigns *)
huffman_code_table(ngram_p_) ==
  LET heap == [i \in 1..Len(ngram_p_) |->
                 [prob |-> ngram_p_[i].prob,
                  counter |-> i - 1,
                  table |-> <<[key |-> ngram_p_[i].key, code |-> <<>>]>>]]
      final == HuffmanMerge(heap, Len(ngram_p_))
  IN  IF Len(final) > 0 THEN final[1].table ELSE <<>>

NoCoder(outcome) == [base |-> Unbuilt("Failed", outcome), subclass |-> NoSubclass]

huffman_init(n, probabilities) ==
  IF n < 1 THEN NoCoder("InvalidBlockSize")
  ELSE IF \E i \in 1..Len(probabilities) : probabilities[i].p <= 0
  THEN NoCoder("InvalidDistribution")
  ELSE IF ~isclose_one(Sum(probabilities, 1)) THEN NoCoder("InvalidDistribution")
  ELSE LET total == Sum(probabilities, 1)
           table == ngram_p(probabilities, total, n)
           keys == [i \in 1..Len(table) |-> table[i].key]
       IN  [base |-> init(keys, BinaryAlphabet, "table", huffman_code_table(table)),
            subclass |-> [kind |-> "HuffmanNgramCoder", n |-> n, probs |-> probabilities,
                          total |-> total, ngram_p |-> table]]

Pads(count) == [i \in 1..count |-> PAD]

RECURSIVE EncodeBlocks(_, _, _, _, _)
EncodeBlocks(table, text, n, i, result) ==
  IF ~(i < Len(text)) THEN [outcome |-> "ok", chan |-> result]
  ELSE LET r == encode(table, <<SubSeq(text, i + 1, i + n)>>)
       IN  IF r.outcome # "ok" THEN [outcome |-> r.outcome, chan |-> <<>>]
           ELSE EncodeBlocks(table, text, n, i + n, result \o r.chan)

encode_text(table, n, text) ==
  LET rem == Len(text) % n
      padded == IF rem # 0 THEN text \o Pads(n - rem) ELSE text
  IN  EncodeBlocks(table, padded, n, 0, <<>>)

RECURSIVE Flatten(_, _)
Flatten(ngrams, i) == IF i > Len(ngrams) THEN <<>> ELSE ngrams[i] \o Flatten(ngrams, i + 1)

StripNothing(out) == out

RECURSIVE StripPads(_)
StripPads(out) ==
  IF Len(out) > 0 /\ out[Len(out)] = PAD THEN StripPads(SubSeq(out, 1, Len(out) - 1)) ELSE out

decode_text(t, bits) ==
  LET r == decode(t, bits)
  IN  IF r.outcome # "ok" THEN [outcome |-> r.outcome, src |-> <<>>]
      ELSE [outcome |-> "ok", src |-> StripPads(Flatten(r.src, 1))]

NgramP(ngram_p_, ngram) == ngram_p_[CHOOSE i \in 1..Len(ngram_p_) : ngram_p_[i].key = ngram].prob

RECURSIVE WeightedCount(_, _, _, _)
WeightedCount(ngram_p_, table, i, n) ==
  IF i > Len(table) THEN ZeroVec(n)
  ELSE VecAdd(NgramP(ngram_p_, table[i].key), WeightedCount(ngram_p_, table, i + 1, n))

RECURSIVE WeightedLength(_, _, _, _)
WeightedLength(ngram_p_, table, i, n) ==
  IF i > Len(table) THEN ZeroVec(n)
  ELSE VecAdd(VecScale(NgramP(ngram_p_, table[i].key), Len(table[i].code)),
              WeightedLength(ngram_p_, table, i + 1, n))

(* expected_code_length, as a coefficient vector over total^n *)
expected_code_length(sub, table) == WeightedLength(sub.ngram_p, table, 1, sub.n)

(* Logarithms.  The probabilities are w / One with w a product of 2, 3, 5   *)
(* and 7, so math.log2 of one is a sum of multiples of 1, log2(3), log2(5) *)
(* and log2(7): a form [one, l3, l5, l7] of integer coefficients.  The     *)
(* three logarithms and 1 are linearly independent over the rationals, so  *)
(* a form is zero exactly when its coefficients are.                       *)
Form(a, b3, b5, b7) == [one |-> a, l3 |-> b3, l5 |-> b5, l7 |-> b7]

FormConst(a) == Form(a, 0, 0, 0)

FormAdd(f, g) == Form(f.one + g.one, f.l3 + g.l3, f.l5 + g.l5, f.l7 + g.l7)

FormScale(f, m) == Form(f.one * m, f.l3 * m, f.l5 * m, f.l7 * m)

FormSub(f, g) == FormAdd(f, FormScale(g, -1))

FormIsZero(f) == f = FormConst(0)

(* log2(3), log2(5) and log2(7) lie between lo / LogScale and hi / LogScale *)
LogScale == 10000

Log2Enclosure ==
  [l3 |-> [lo |-> 15849, hi |-> 15850],
   l5 |-> [lo |-> 23219, hi |-> 23220],
   l7 |-> [lo |-> 28073, hi |-> 28074]]

TermLow(b, e) == IF b >= 0 THEN b * e.lo ELSE b * e.hi

(* LogScale times a lower bound of the form's value *)
FormLow(f) ==
  f.one * LogScale + TermLow(f.l3, Log2Enclosure.l3) + TermLow(f.l5, Log2Enclosure.l5)
    + TermLow(f.l7, Log2Enclosure.l7)

(* The form's value is known to be positive *)
FormPositive(f) ==
  IF f.l3 = 0 /\ f.l5 = 0 /\ f.l7 = 0 THEN f.one > 0 ELSE FormLow(f) > 0

FormNegative(f) == FormPositive(FormScale(f, -1))

(* math.log2(w) for an integer w >= 1 *)
RECURSIVE Log2Form(_)
Log2Form(w) ==
  IF w = 1 THEN FormConst(0)
  ELSE IF w % 2 = 0 THEN FormAdd(Form(1, 0, 0, 0), Log2Form(w \div 2))
  ELSE IF w % 3 = 0 THEN FormAdd(Form(0, 1, 0, 0), Log2Form(w \div 3))
  ELSE IF w % 5 = 0 THEN FormAdd(Form(0, 0, 1, 0), Log2Form(w \div 5))
  ELSE FormAdd(Form(0, 0, 0, 1), Log2Form(w \div 7))

(* One times the entropy: -sum(p * log2(p)) with p = w / One *)
RECURSIVE EntropySum(_, _)
EntropySum(probs, i) ==
  IF i > Len(probs) THEN FormConst(0)
  ELSE FormAdd(FormScale(FormSub(Log2Form(One), Log2Form(probs[i].p)), probs[i].p),
               EntropySum(probs, i + 1))

entropy(sub) == EntropySum(sub.probs, 1)

----------------------------------------------------------------------------
(* ShannonFanoEliasBinaryCoder *)

RECURSIVE Cumulative(_, _)
Cumulative(probabilities, i) ==
  IF i <= 1 THEN 0 ELSE Cumulative(probabilities, i - 1) + probabilities[i - 1].p

(* math.ceil(-math.log2(p)) for p = w / unit: the least j with             *)
(* unit <= w * 2^j                                                         *)
RECURSIVE CeilNegLog2From(_, _, _)
CeilNegLog2From(w, unit, j) ==
  IF unit <= w * Power(2, j) THEN j ELSE CeilNegLog2From(w, unit, j + 1)

CeilNegLog2(w) == CeilNegLog2From(w, One, 0)

RECURSIVE float_to_binary_above(_, _, _)
float_to_binary_above(num, den, length) ==
  IF length <= 0 THEN <<>>
  ELSE IF 2 * num > den
  THEN <<"1">> \o float_to_binary_above(2 * num - den, den, length - 1)
  ELSE <<"0">> \o float_to_binary_above(2 * num, den, length - 1)

(* _float_to_binary for the value num / den *)
RECURSIVE float_to_binary(_, _, _)
float_to_binary(num, den, length) ==
  IF length <= 0 THEN <<>>
  ELSE IF 2 * num >= den
  THEN <<"1">> \o float_to_binary(2 * num - den, den, length - 1)
  ELSE <<"0">> \o float_to_binary(2 * num, den, length - 1)

(* The code table ShannonFanoEliasBinaryCoder._build_prefix_code_tree      *)
(* assigns; modified_cumulative holds F_bar in halves of 1 / unit.         *)
sfe_code_table(sub) ==
  [i \in 1..Len(sub.probabilities) |->
     [key |-> sub.probabilities[i].symbol,
      code |-> float_to_binary(sub.modified_cumulative[i], 2 * sub.unit, sub.code_lengths[i])]]

(* __init__ for probabilities that are whole numbers of 1 / unit *)
sfe_init_in(probabilities, unit) ==
  IF \E i \in 1..Len(probabilities) : probabilities[i].p <= 0
  THEN NoCoder("InvalidDistribution")
  ELSE IF ~isclose(Sum(probabilities, 1), unit)
  THEN NoCoder("InvalidDistribution")
  ELSE LET sub == [kind |-> "ShannonFanoEliasBinaryCoder",
                   unit |-> unit,
                   probabilities |-> probabilities,
                   cumulative_probs |->
                     [i \in 1..Len(probabilities) |-> Cumulative(probabilities, i)],
                   modified_cumulative |->
                     [i \in 1..Len(probabilities) |->
                        2 * Cumulative(probabilities, i) + probabilities[i].p],
                   code_lengths |->
                     [i \in 1..Len(probabilities) |->
                        CeilNegLog2From(probabilities[i].p, unit, 0) + 1]]
       IN  [base |-> init(Keys(probabilities), BinaryAlphabet, "table", sfe_code_table(sub)),
            subclass |-> sub]

sfe_init(probabilities) == sfe_init_in(probabilities, One)

----------------------------------------------------------------------------
(* Coders built from a distribution: HuffmanNgramCoder and                 *)
(* ShannonFanoEliasBinaryCoder construction                                *)

DistributionInit ==
  /\ state = "Uninitialized"
  /\ source_alphabet = <<>>
  /\ channel_alphabet = <<>>
  /\ code_table = <<>>
  /\ tree = NoTree
  /\ subclass = NoSubclass
  /\ call = NoCall
  /\ ret = NoRet
  /\ NoPipeline

Built(r, op, n, probabilities) ==
  /\ state' = r.base.state
  /\ source_alphabet' = r.base.source_alphabet
  /\ channel_alphabet' = r.base.channel_alphabet
  /\ code_table' = r.base.code_table
  /\ tree' = r.base.tree
  /\ subclass' = r.subclass
  /\ call' = [NoCall EXCEPT !.op = op, !.n = n, !.probabilities = probabilities]
  /\ ret' = [NoRet EXCEPT !.outcome = r.base.outcome]
  /\ UNCHANGED pipeline

HuffmanConstruct(n, probabilities) ==
  /\ state = "Uninitialized"
  /\ Built(huffman_init(n, probabilities), "HuffmanNgramCoder", n, probabilities)

SFEConstruct(probabilities) ==
  /\ state = "Uninitialized"
  /\ Built(sfe_init(probabilities), "ShannonFanoEliasBinaryCoder", 0, probabilities)

HuffmanConstructing ==
  /\ state = "Uninitialized"
  /\ \E n \in BlockSizes, probabilities \in Distributions :
       /\ Power(Len(probabilities) + 1, n) <= MaxNgrams
       /\ HuffmanConstruct(n, probabilities)

SFEConstructing ==
  /\ state = "Uninitialized"
  /\ \E probabilities \in Distributions : SFEConstruct(probabilities)

DistributionNext == HuffmanConstructing \/ SFEConstructing

SpecDistribution == DistributionInit /\ [][DistributionNext]_vars

----------------------------------------------------------------------------
(* ShannonFanoEliasBinaryCoder construction from probabilities counted in  *)
(* 1 / FineOne, fine enough for totals within abs_tol of 1.0 but not 1.0   *)

FineOne == 10000000

FineValues == {0, 5, 10, 2500000, 5000000, 9999995, 10000000}

FineDistributions ==
  UNION {{[i \in 1..k |-> [symbol |-> DistributionSymbols[i], p |-> w[i]]] :
            w \in [1..k -> FineValues]} : k \in 0..MaxSymbols}

FineSFEConstruct(probabilities) ==
  /\ state = "Uninitialized"
  /\ Built(sfe_init_in(probabilities, FineOne), "ShannonFanoEliasBinaryCoder", 0, probabilities)

FineSFEConstructing ==
  /\ state = "Uninitialized"
  /\ call = NoCall
  /\ \E probabilities \in FineDistributions : FineSFEConstruct(probabilities)

ToleranceNext == FineSFEConstructing

SpecTolerance == DistributionInit /\ [][ToleranceNext]_vars

----------------------------------------------------------------------------
(* A Huffman n-gram coder built from a valid distribution: encode_text and *)
(* decode_text calls                                                       *)

TextSymbols == Range(SubSeq(DistributionSymbols, 1, MaxTextSymbols)) \cup {PAD}

Texts == SeqsUpTo(TextSymbols, MaxTextLen)

TextInit ==
  \E n \in 1..MaxBlock, probabilities \in Distributions :
    /\ Len(probabilities) <= MaxTextSymbols
    /\ Power(Len(probabilities) + 1, n) <= MaxNgrams
    /\ LET r == huffman_init(n, probabilities)
       IN  /\ r.base.outcome = "ok"
           /\ state = r.base.state
           /\ source_alphabet = r.base.source_alphabet
           /\ channel_alphabet = r.base.channel_alphabet
           /\ code_table = r.base.code_table
           /\ tree = r.base.tree
           /\ subclass = r.subclass
    /\ call = [NoCall EXCEPT !.op = "HuffmanNgramCoder", !.n = n,
                             !.probabilities = probabilities]
    /\ ret = [NoRet EXCEPT !.outcome = "ok"]
    /\ NoPipeline

EncodeText(text) ==
  /\ state = "TableAndTreeConsistent"
  /\ subclass.kind = "HuffmanNgramCoder"
  /\ LET r == encode_text(code_table, subclass.n, text)
     IN  /\ call' = [NoCall EXCEPT !.op = "encode_text", !.src = text]
         /\ ret' = [NoRet EXCEPT !.outcome = r.outcome, !.chan = r.chan]
  /\ UNCHANGED <<coder, subclass>>
  /\ UNCHANGED pipeline

DecodeText(bits) ==
  /\ state = "TableAndTreeConsistent"
  /\ subclass.kind = "HuffmanNgramCoder"
  /\ LET r == decode_text(tree, bits)
     IN  /\ call' = [NoCall EXCEPT !.op = "decode_text", !.chan = bits]
         /\ ret' = [NoRet EXCEPT !.outcome = r.outcome, !.src = r.src]
  /\ UNCHANGED <<coder, subclass>>
  /\ UNCHANGED pipeline

EncodingText ==
  /\ state = "TableAndTreeConsistent"
  /\ \E text \in Texts : EncodeText(text)

DecodingText ==
  /\ state = "TableAndTreeConsistent"
  /\ \E bits \in EncodedSequences \cup {ret.chan} : DecodeText(bits)

TextNext == EncodingText \/ DecodingText

SpecText == TextInit /\ [][TextNext]_vars

----------------------------------------------------------------------------
(* A Huffman or Shannon-Fano-Elias coder built from a valid distribution:  *)
(* decode calls, each successful one followed by encode of its result      *)

BuiltCoders ==
  {huffman_init(n, probabilities) :
     <<n, probabilities>> \in
       {np \in (1..MaxBlock) \X Distributions :
          Len(np[2]) <= MaxTextSymbols /\ Power(Len(np[2]) + 1, np[1]) <= MaxNgrams}}
  \cup {sfe_init(probabilities) : probabilities \in Distributions}
  \cup {sfe_init_in(probabilities, FineOne) : probabilities \in FineDistributions}

RoundTripInit ==
  \E r \in BuiltCoders :
    /\ r.base.outcome = "ok"
    /\ state = r.base.state
    /\ source_alphabet = r.base.source_alphabet
    /\ channel_alphabet = r.base.channel_alphabet
    /\ code_table = r.base.code_table
    /\ tree = r.base.tree
    /\ subclass = r.subclass
    /\ call = [NoCall EXCEPT !.op = r.subclass.kind]
    /\ ret = [NoRet EXCEPT !.outcome = "ok"]
    /\ NoPipeline

(* encode(decode(s)) after decode(s) has returned: call keeps s in chan *)
EncodeDecoded ==
  /\ state = "TableAndTreeConsistent"
  /\ call.op = "decode"
  /\ ret.outcome = "ok"
  /\ LET r == encode(code_table, ret.src)
     IN  /\ call' = [NoCall EXCEPT !.op = "encode", !.src = ret.src, !.chan = call.chan]
         /\ ret' = [NoRet EXCEPT !.outcome = r.outcome, !.chan = r.chan]
  /\ UNCHANGED <<coder, subclass>>
  /\ UNCHANGED pipeline

MaxChannelLen == 4

ChannelSequences == SeqsUpTo(Range(BinaryAlphabet), MaxChannelLen)

DecodingChannel ==
  /\ state = "TableAndTreeConsistent"
  /\ \E encoded \in ChannelSequences : Decode(encoded)

RoundTripNext == DecodingChannel \/ EncodeDecoded

SpecRoundTrip == RoundTripInit /\ [][RoundTripNext]_vars

----------------------------------------------------------------------------
(* A code table given to _build_tree_from_table, the table then being      *)
(* rebuilt from the tree by _build_table_from_tree.                        *)

TableSymbols == <<"A", "B", "C">>

TableItems == [key : Range(TableSymbols), code : Codes]

Tables ==
  {d \in SeqsUpTo(TableItems, Len(TableSymbols)) :
     \A i \in 1..Len(d) : \A j \in 1..Len(d) : i # j => d[i].key # d[j].key}

RebuildInit ==
  /\ state = "TableGiven"
  /\ source_alphabet = TableSymbols
  /\ channel_alphabet = BinaryAlphabet
  /\ code_table \in Tables
  /\ tree = NoTree
  /\ subclass = NoSubclass
  /\ call = NoCall
  /\ ret = NoRet
  /\ NoPipeline

Rebuild ==
  /\ state = "TableGiven"
  /\ LET b == build_tree_from_table(code_table, tree)
         r == build_table_from_tree(code_table, b.tree)
     IN  /\ tree' = b.tree
         /\ call' = [NoCall EXCEPT !.op = "rebuild"]
         /\ IF b.outcome # "ok"
            THEN /\ state' = "Failed"
                 /\ code_table' = code_table
                 /\ ret' = [NoRet EXCEPT !.outcome = b.outcome]
            ELSE /\ state' = IF r.outcome = "ok" THEN "Rebuilt" ELSE "Failed"
                 /\ code_table' = r.code_table
                 /\ ret' = [NoRet EXCEPT !.outcome = r.outcome]
  /\ UNCHANGED <<source_alphabet, channel_alphabet, subclass>>
  /\ UNCHANGED pipeline

RebuildNext == Rebuild

SpecRebuild == RebuildInit /\ [][RebuildNext]_vars

----------------------------------------------------------------------------
(* A set of (codeword, symbol) pairs inserted into an empty PrefixCodeTree  *)
(* in one order.  In this specification code_table holds the pairs in the  *)
(* order of the insert_code calls.                                         *)

PairItems == [key : Range(SourceSymbols), code : Codes]

PairLists ==
  {L \in SeqsUpTo(PairItems, MaxPairs) :
     \A i \in 1..Len(L) : \A j \in 1..Len(L) : i # j => L[i] # L[j]}

OrderInit ==
  /\ state = "Pairs"
  /\ source_alphabet = <<>>
  /\ channel_alphabet = <<>>
  /\ code_table \in PairLists
  /\ tree = EmptyTree
  /\ subclass = NoSubclass
  /\ call = NoCall
  /\ ret = NoRet
  /\ NoPipeline

InsertAll ==
  /\ state = "Pairs"
  /\ LET r == InsertItems(tree, code_table, 1)
     IN  /\ tree' = r.tree
         /\ state' = IF r.outcome = "ok" THEN "Inserted" ELSE "InsertFailed"
         /\ call' = [NoCall EXCEPT !.op = "insert_all"]
         /\ ret' = [NoRet EXCEPT !.outcome = r.outcome]
  /\ UNCHANGED <<source_alphabet, channel_alphabet, code_table, subclass>>
  /\ UNCHANGED pipeline

OrderNext == InsertAll

SpecOrder == OrderInit /\ [][OrderNext]_vars

----------------------------------------------------------------------------
(* The transmission pipeline: loggers, TrackingReceiver.  The coder        *)
(* variables hold the PrefixEncoderDecoder the sender encodes with and the *)
(* receiver decodes with.  Timestamps, processing times and the data dicts *)
(* of log entries are readings of the clock or constants and are left out. *)

MaxMessages == 2

MaxObjects == 2

Message(id, data) == [id |-> id, data |-> data]

(* _last_message before any message: None *)
NoMessage == [id |-> -1, data |-> <<None>>]

(* "".join(map(str, data)): every symbol of the model is one character *)
RECURSIVE Join(_)
Join(data) == IF Len(data) = 0 THEN <<>> ELSE <<Head(data)>> \o Join(Tail(data))

TransmissionLog(event, message) == [event |-> event, message |-> message]

(* PlainLogger and PandasLogger keep every entry; "CheckingLogger" is a    *)
(* logger of the caller's that keeps them and has a check_message of its   *)
(* own; NullLogger keeps nothing.                                          *)
LoggerKinds == {"NullLogger", "PlainLogger", "PandasLogger", "CheckingLogger"}

Logger(kind) == [kind |-> kind, logs |-> <<>>]

log(lg, log_entry) ==
  IF lg.kind = "NullLogger" THEN lg ELSE [lg EXCEPT !.logs = Append(@, log_entry)]

(* hasattr(self._logger, "check_message") *)
has_check_message(lg) == lg.kind \in {"PandasLogger", "CheckingLogger"}

(* PandasLogger.check_message: row_data[message.id][0] is the first entry  *)
(* logged for the id; a logger of the caller's returns or raises what its  *)
(* own code decides (verdict).                                             *)
check_message(lg, message, verdict) ==
  IF lg.kind = "PandasLogger"
  THEN IF \E i \in 1..Len(lg.logs) : lg.logs[i].message.id = message.id
       THEN LET first == CHOOSE i \in 1..Len(lg.logs) :
                           /\ lg.logs[i].message.id = message.id
                           /\ \A j \in 1..(i - 1) : lg.logs[j].message.id # message.id
            IN  IF Join(lg.logs[first].message.data) = Join(message.data)
                THEN "True" ELSE "False"
       ELSE "raise"
  ELSE verdict

Verdicts(lg) == IF lg.kind = "CheckingLogger" THEN {"True", "False", "raise"} ELSE {"True"}

TransmissionStats ==
  [total_messages |-> 0, successful_messages |-> 0, decoded_messages |-> 0,
   failed_messages |-> 0, total_source_symbols |-> 0, total_channel_symbols |-> 0,
   decode_errors |-> 0, validation_errors |-> 0]

(* TrackingReceiver.__init__: _stats refers to a new TransmissionStats,    *)
(* the object objs[_stats]                                                 *)
TrackingReceiver(objs) ==
  [receiver |-> [kind |-> "TrackingReceiver", _stats |-> Len(objs) + 1,
                 _last_message |-> NoMessage],
   objects |-> Append(objs, TransmissionStats)]

(* One iteration of the loop of receive_stream, up to its yield *)
receive_one(rc, lg, objs, t, encoded_message, verdict) ==
  LET s == rc._stats
      received == log(lg, TransmissionLog("RECEIVED", encoded_message))
      counted == [objs EXCEPT ![s].total_messages = @ + 1]
      d == decode(t, encoded_message.data)
      decoded_message == Message(encoded_message.id, d.src)
      measured == [counted EXCEPT
                     ![s].total_source_symbols = @ + Len(d.src),
                     ![s].total_channel_symbols = @ + Len(encoded_message.data),
                     ![s].decoded_messages = @ + 1]
      decoded == log(received, TransmissionLog("DECODED", decoded_message))
      kept == [rc EXCEPT !._last_message = decoded_message]
      checked == check_message(decoded, decoded_message, verdict)
      error == TransmissionLog("ERROR", encoded_message)
  IN  IF d.outcome # "ok"
      THEN [receiver |-> rc, logger |-> log(received, error),
            objects |-> [counted EXCEPT ![s].decode_errors = @ + 1], success |-> FALSE]
      ELSE IF ~has_check_message(decoded)
      THEN [receiver |-> kept, logger |-> decoded, objects |-> measured, success |-> TRUE]
      ELSE IF checked = "True"
      THEN [receiver |-> kept, logger |-> decoded,
            objects |-> [measured EXCEPT ![s].successful_messages = @ + 1], success |-> TRUE]
      ELSE IF checked = "False"
      THEN [receiver |-> kept, logger |-> decoded,
            objects |-> [measured EXCEPT ![s].validation_errors = @ + 1], success |-> FALSE]
      ELSE [receiver |-> kept, logger |-> log(decoded, error),
            objects |-> [measured EXCEPT ![s].decode_errors = @ + 1], success |-> FALSE]

(* reset_stats that leaves the statistics as they are *)
reset_stats_keeping(rc, objs) == [receiver |-> rc, objects |-> objs]

(* reset_stats: _stats refers to a new TransmissionStats *)
reset_stats(rc, objs) ==
  [receiver |-> [rc EXCEPT !._stats = Len(objs) + 1],
   objects |-> Append(objs, TransmissionStats)]

(* get_stats: the object _stats refers to *)
get_stats(rc) == rc._stats

----------------------------------------------------------------------------
(* A TrackingReceiver used on its own: a stream of messages is received    *)
(* one by one, and the caller asks for the statistics, writes to the       *)
(* object it was given, and resets the statistics.  runner is the caller:  *)
(* sent counts the messages of the stream so far, stats is the object the  *)
(* last get_stats returned (0: none yet).                                  *)

PipelineTable == <<[key |-> "A", code |-> <<"0">>], [key |-> "B", code |-> <<"1", "0">>]>>

StreamIds == {0, 1}

StreamData == {<<>>, <<"0">>, <<"1">>, <<"1", "0">>}

StatsMark == 999

ReceiverInit ==
  \E kind \in LoggerKinds :
    LET r == init(SourceSymbols, BinaryAlphabet, "table", PipelineTable)
        built == TrackingReceiver(<<>>)
    IN  /\ state = r.state
        /\ source_alphabet = r.source_alphabet
        /\ channel_alphabet = r.channel_alphabet
        /\ code_table = r.code_table
        /\ tree = r.tree
        /\ subclass = NoSubclass
        /\ call = [NoCall EXCEPT !.op = "TrackingReceiver"]
        /\ ret = [NoRet EXCEPT !.outcome = "ok"]
        /\ sender = NoPart
        /\ receiver = built.receiver
        /\ logger = Logger(kind)
        /\ objects = built.objects
        /\ runner = [kind |-> "caller", sent |-> 0, stats |-> 0]

ReceiveNext(encoded_message, verdict) ==
  /\ receiver.kind = "TrackingReceiver"
  /\ runner.sent < MaxMessages
  /\ LET r == receive_one(receiver, logger, objects, tree, encoded_message, verdict)
     IN  /\ receiver' = r.receiver
         /\ logger' = r.logger
         /\ objects' = r.objects
         /\ ret' = [NoRet EXCEPT !.outcome = IF r.success THEN "True" ELSE "False"]
  /\ call' = [NoCall EXCEPT !.op = "receive_stream", !.n = encoded_message.id,
                            !.chan = encoded_message.data]
  /\ runner' = [runner EXCEPT !.sent = @ + 1]
  /\ UNCHANGED <<coder, subclass, sender>>

Receiving ==
  /\ runner.kind = "caller"
  /\ \E id \in StreamIds, data \in StreamData, verdict \in Verdicts(logger) :
       ReceiveNext(Message(id, data), verdict)

GetStats ==
  /\ runner.kind = "caller"
  /\ call' = [NoCall EXCEPT !.op = "get_stats"]
  /\ ret' = [NoRet EXCEPT !.outcome = "ok"]
  /\ runner' = [runner EXCEPT !.stats = get_stats(receiver)]
  /\ UNCHANGED <<coder, subclass, sender, receiver, logger, objects>>

(* stats = receiver.get_stats(); stats.total_messages = 999 *)
WriteReturnedStats ==
  /\ runner.kind = "caller"
  /\ runner.stats # 0
  /\ call' = [NoCall EXCEPT !.op = "write_stats"]
  /\ ret' = [NoRet EXCEPT !.outcome = "ok"]
  /\ objects' = [objects EXCEPT ![runner.stats].total_messages = StatsMark]
  /\ UNCHANGED <<coder, subclass, sender, receiver, logger, runner>>

ResetStats ==
  /\ runner.kind = "caller"
  /\ Len(objects) < MaxObjects
  /\ LET r == reset_stats(receiver, objects)
     IN  /\ receiver' = r.receiver
         /\ objects' = r.objects
  /\ call' = [NoCall EXCEPT !.op = "reset_stats"]
  /\ ret' = [NoRet EXCEPT !.outcome = "ok"]
  /\ UNCHANGED <<coder, subclass, sender, logger, runner>>

ReceiverNext == Receiving \/ GetStats \/ WriteReturnedStats \/ ResetStats

SpecReceiver == ReceiverInit /\ [][ReceiverNext]_vars

----------------------------------------------------------------------------
(* FixedMessagesSender *)

(* __init__: the caller's list of source messages, not empty *)
FixedMessagesSender(messages) ==
  [kind |-> "FixedMessagesSender", _messages |-> messages, _message_id |-> 0,
   _index |-> 0, _last_message |-> NoMessage]

(* message_stream_next that leaves _index where it is *)
message_stream_next_same_index(sd, lg, table) ==
  LET source_message == Message(sd._message_id, sd._messages[sd._index + 1])
      tracked == [sd EXCEPT !._last_message = source_message,
                            !._message_id = @ + 1]
      generated == log(lg, TransmissionLog("SOURCE_GENERATED", source_message))
      e == encode(table, source_message.data)
      encoded_message == Message(source_message.id, e.chan)
  IN  IF e.outcome # "ok"
      THEN [sender |-> tracked, logger |-> generated, outcome |-> "raise",
            message |-> NoMessage]
      ELSE [sender |-> tracked,
            logger |-> log(generated, TransmissionLog("ENCODED", encoded_message)),
            outcome |-> "yield", message |-> encoded_message]

(* One iteration of the loop of message_stream, up to its yield or to the  *)
(* exception encode raises                                                 *)
message_stream_next(sd, lg, table) ==
  LET source_message == Message(sd._message_id, sd._messages[sd._index + 1])
      tracked == [sd EXCEPT !._last_message = source_message,
                            !._message_id = @ + 1,
                            !._index = (@ + 1) % Len(sd._messages)]
      generated == log(lg, TransmissionLog("SOURCE_GENERATED", source_message))
      e == encode(table, source_message.data)
      encoded_message == Message(source_message.id, e.chan)
  IN  IF e.outcome # "ok"
      THEN [sender |-> tracked, logger |-> generated, outcome |-> "raise",
            message |-> NoMessage]
      ELSE [sender |-> tracked,
            logger |-> log(generated, TransmissionLog("ENCODED", encoded_message)),
            outcome |-> "yield", message |-> encoded_message]

reset(sd) == [sd EXCEPT !._index = 0, !._message_id = 0]

get_last_message(sd) == sd._last_message

----------------------------------------------------------------------------
(* A FixedMessagesSender used on its own: the caller starts streams, takes *)
(* messages from the latest one and resets the sender.  runner is the      *)
(* caller: stream is the generator it holds ("none", "created", "running", *)
(* "finished") with the messages it still has to give (remaining);         *)
(* yielded counts the messages received since construction or the last     *)
(* reset, message is the last one received and source the source message   *)
(* it was encoded from; failed and failed_since_yield tell whether a call  *)
(* has raised inside a stream since the reset and since the last yield;    *)
(* generated counts the iterations so far.                                 *)

MaxListLen == 2

MaxGenerated == 4

SenderMessages == {<<"A">>, <<"A", "B">>, <<"C">>}

MessageLists == UNION {[1..k -> SenderMessages] : k \in 1..MaxListLen}

StreamLens == -1..MaxGenerated

SenderInit ==
  \E messages \in MessageLists, kind \in {"NullLogger", "PlainLogger"} :
    LET r == init(SourceSymbols, BinaryAlphabet, "table", PipelineTable)
    IN  /\ state = r.state
        /\ source_alphabet = r.source_alphabet
        /\ channel_alphabet = r.channel_alphabet
        /\ code_table = r.code_table
        /\ tree = r.tree
        /\ subclass = NoSubclass
        /\ call = [NoCall EXCEPT !.op = "FixedMessagesSender"]
        /\ ret = [NoRet EXCEPT !.outcome = "ok"]
        /\ sender = FixedMessagesSender(messages)
        /\ receiver = NoPart
        /\ logger = Logger(kind)
        /\ objects = <<>>
        /\ runner = [kind |-> "caller", stream |-> "none", remaining |-> 0,
                     yielded |-> 0, message |-> NoMessage, source |-> NoMessage,
                     failed |-> FALSE, failed_since_yield |-> FALSE, generated |-> 0]

(* message_stream(stream_len): a new generator; its body has not run yet *)
MessageStream(stream_len) ==
  /\ sender.kind = "FixedMessagesSender"
  /\ runner.kind = "caller"
  /\ call' = [NoCall EXCEPT !.op = "message_stream", !.n = stream_len]
  /\ ret' = [NoRet EXCEPT !.outcome = "ok"]
  /\ runner' = [runner EXCEPT !.stream = "created", !.remaining = stream_len]
  /\ UNCHANGED <<coder, subclass, sender, receiver, logger, objects>>

(* message_stream(): stream_len is None and becomes len(self._messages) *)
MessageStreamDefault == MessageStream(Len(sender._messages))

MessageStreamCalling ==
  \/ \E stream_len \in StreamLens : MessageStream(stream_len)
  \/ MessageStreamDefault

(* next() on the generator *)
StreamNext ==
  /\ sender.kind = "FixedMessagesSender"
  /\ runner.kind = "caller"
  /\ runner.stream \in {"created", "running"}
  /\ call' = [NoCall EXCEPT !.op = "next"]
  /\ IF runner.stream = "created" /\ runner.remaining <= 0
     THEN /\ ret' = [NoRet EXCEPT !.outcome = "ValueError"]
          /\ runner' = [runner EXCEPT !.stream = "finished"]
          /\ UNCHANGED <<sender, logger>>
     ELSE IF runner.remaining = 0
     THEN /\ ret' = [NoRet EXCEPT !.outcome = "StopIteration"]
          /\ runner' = [runner EXCEPT !.stream = "finished"]
          /\ UNCHANGED <<sender, logger>>
     ELSE /\ runner.generated < MaxGenerated
          /\ LET r == message_stream_next(sender, logger, code_table)
             IN  /\ sender' = r.sender
                 /\ logger' = r.logger
                 /\ ret' = [NoRet EXCEPT !.outcome = r.outcome]
                 /\ runner' =
                      IF r.outcome = "yield"
                      THEN [runner EXCEPT !.stream = "running", !.remaining = @ - 1,
                                          !.yielded = @ + 1, !.message = r.message,
                                          !.source = r.sender._last_message,
                                          !.failed_since_yield = FALSE,
                                          !.generated = @ + 1]
                      ELSE [runner EXCEPT !.stream = "finished", !.failed = TRUE,
                                          !.failed_since_yield = TRUE,
                                          !.generated = @ + 1]
  /\ UNCHANGED <<coder, subclass, receiver, objects>>

Reset ==
  /\ sender.kind = "FixedMessagesSender"
  /\ runner.kind = "caller"
  /\ sender' = reset(sender)
  /\ call' = [NoCall EXCEPT !.op = "reset"]
  /\ ret' = [NoRet EXCEPT !.outcome = "ok"]
  /\ runner' = [runner EXCEPT !.yielded = 0, !.failed = FALSE]
  /\ UNCHANGED <<coder, subclass, receiver, logger, objects>>

SenderNext == MessageStreamCalling \/ StreamNext \/ Reset

SpecSender == SenderInit /\ [][SenderNext]_vars

----------------------------------------------------------------------------
(* NoiselessChannel and ExperimentRunner *)

(* One iteration of the loop of NoiselessChannel.transmit_stream *)
transmit_one(lg, message) == log(lg, TransmissionLog("TRANSMITTED", message))

(* sum(results) *)
RECURSIVE CountTrue(_)
CountTrue(results) ==
  IF Len(results) = 0 THEN 0
  ELSE (IF Head(results) THEN 1 ELSE 0) + CountTrue(Tail(results))

NoResult == [stats |-> 0, num_messages |-> 0, success_count |-> 0, failure_count |-> 0]

(* ExperimentResult(stats=self.receiver.get_stats(), metadata={...}) *)
ExperimentResult(rc, num_messages, results) ==
  [stats |-> get_stats(rc), num_messages |-> num_messages,
   success_count |-> CountTrue(results),
   failure_count |-> Len(results) - CountTrue(results)]

----------------------------------------------------------------------------
(* An ExperimentRunner over a FixedMessagesSender, a NoiselessChannel and  *)
(* a TrackingReceiver that share one logger and one coder.  The three      *)
(* generators of run are chained: the receiver's loop asks the channel's   *)
(* for a message, which asks the sender's.  runner.pc tells whose loop     *)
(* body runs next ("idle": no run in progress), remaining the messages the *)
(* sender's generator still has to give, message the one in flight,        *)
(* results the list run appends to, result what the last run returned and  *)
(* sent the messages asked for in all runs so far.                         *)

MaxSent == 3

ExperimentMessages == {<<<<"A">>>>, <<<<"A">>, <<"A", "B">>>>, <<<<"A">>, <<"C">>>>}

NumMessages == -1..MaxMessages

ExperimentInit ==
  \E messages \in ExperimentMessages, kind \in LoggerKinds :
    LET r == init(SourceSymbols, BinaryAlphabet, "table", PipelineTable)
        built == TrackingReceiver(<<>>)
    IN  /\ state = r.state
        /\ source_alphabet = r.source_alphabet
        /\ channel_alphabet = r.channel_alphabet
        /\ code_table = r.code_table
        /\ tree = r.tree
        /\ subclass = NoSubclass
        /\ call = [NoCall EXCEPT !.op = "ExperimentRunner"]
        /\ ret = [NoRet EXCEPT !.outcome = "ok"]
        /\ sender = FixedMessagesSender(messages)
        /\ receiver = built.receiver
        /\ logger = Logger(kind)
        /\ objects = built.objects
        /\ runner = [kind |-> "ExperimentRunner", pc |-> "idle", remaining |-> 0,
                     message |-> NoMessage, results |-> <<>>, result |-> NoResult,
                     sent |-> 0]

(* run(num_messages) up to the first message asked of the sender *)
Run(num_messages) ==
  /\ runner.kind = "ExperimentRunner"
  /\ runner.pc = "idle"
  /\ num_messages > 0 => runner.sent + num_messages <= MaxSent
  /\ call' = [NoCall EXCEPT !.op = "run", !.n = num_messages]
  /\ IF num_messages <= 0
     THEN /\ ret' = [NoRet EXCEPT !.outcome = "ValueError"]
          /\ UNCHANGED <<receiver, objects, runner>>
     ELSE LET r == reset_stats(receiver, objects)
          IN  /\ receiver' = r.receiver
              /\ objects' = r.objects
              /\ ret' = [NoRet EXCEPT !.outcome = "running"]
              /\ runner' = [runner EXCEPT !.pc = "sender", !.remaining = num_messages,
                                          !.results = <<>>, !.sent = @ + num_messages]
  /\ UNCHANGED <<coder, subclass, sender, logger>>

Running == \E num_messages \in NumMessages : Run(num_messages)

(* The sender's generator gives the next message, or encode raises and the *)
(* exception leaves run                                                    *)
SenderStep ==
  /\ runner.kind = "ExperimentRunner"
  /\ runner.pc = "sender"
  /\ runner.remaining > 0
  /\ LET r == message_stream_next(sender, logger, code_table)
     IN  /\ sender' = r.sender
         /\ logger' = r.logger
         /\ IF r.outcome = "yield"
            THEN /\ runner' = [runner EXCEPT !.pc = "channel", !.remaining = @ - 1,
                                             !.message = r.message]
                 /\ UNCHANGED ret
            ELSE /\ runner' = [runner EXCEPT !.pc = "idle", !.remaining = 0]
                 /\ ret' = [NoRet EXCEPT !.outcome = "raise"]
  /\ UNCHANGED <<coder, subclass, call, receiver, objects>>

ChannelStep ==
  /\ runner.kind = "ExperimentRunner"
  /\ runner.pc = "channel"
  /\ logger' = transmit_one(logger, runner.message)
  /\ runner' = [runner EXCEPT !.pc = "receiver"]
  /\ UNCHANGED <<coder, subclass, call, ret, sender, receiver, objects>>

ReceiverStep(verdict) ==
  /\ runner.kind = "ExperimentRunner"
  /\ runner.pc = "receiver"
  /\ LET r == receive_one(receiver, logger, objects, tree, runner.message, verdict)
     IN  /\ receiver' = r.receiver
         /\ logger' = r.logger
         /\ objects' = r.objects
         /\ runner' = [runner EXCEPT !.pc = "sender", !.results = Append(@, r.success)]
  /\ UNCHANGED <<coder, subclass, call, ret, sender>>

ReceiverStepping == \E verdict \in Verdicts(logger) : ReceiverStep(verdict)

(* The sender's generator is exhausted: the loops end and run returns *)
RunReturn ==
  /\ runner.kind = "ExperimentRunner"
  /\ runner.pc = "sender"
  /\ runner.remaining = 0
  /\ runner' = [runner EXCEPT !.pc = "idle",
                              !.result = ExperimentResult(receiver, call.n, runner.results)]
  /\ ret' = [NoRet EXCEPT !.outcome = "ok"]
  /\ UNCHANGED <<coder, subclass, call, sender, receiver, logger, objects>>

ExperimentNext == Running \/ SenderStep \/ ChannelStep \/ ReceiverStepping \/ RunReturn

SpecExperiment == ExperimentInit /\ [][ExperimentNext]_vars

----------------------------------------------------------------------------
(* Claims about the tree on its own (SpecTree) *)

StartsWith(sequence, position, code) ==
  /\ position + Len(code) <= Len(sequence)
  /\ SubSeq(sequence, position + 1, position + Len(code)) = code

Rest(sequence, position) == SubSeq(sequence, position + 1, Len(sequence))

(* C2: in every state reached from the empty tree by insert_code calls,    *)
(* failing ones included, no node holds both a value and children, and no  *)
(* stored codeword is a prefix of another stored codeword.                 *)
C2_NoValueWithChildren ==
  state = "Tree" =>
    /\ \A node \in DOMAIN tree : ~(tree[node].value # None /\ Len(tree[node].children) > 0)
    /\ \A a \in StoredCodes(tree) : \A b \in StoredCodes(tree) : a # b => ~IsPrefix(a, b)

(* C3: insert_code(c, s) fails with PrefixConflict whenever a stored       *)
(* codeword is a proper prefix of c and whenever c is a proper prefix of a *)
(* stored codeword; it succeeds and makes c map to s whenever c is         *)
(* prefix-incomparable with every stored codeword.                         *)
C3_InsertContract ==
  [][(state = "Tree" /\ call'.op = "insert_code") =>
       LET c == call'.chan
           stored == StoredCodes(tree)
       IN  /\ (\E k \in stored : IsProperPrefix(k, c)) => ret'.outcome = "PrefixConflict"
           /\ (\E k \in stored : IsProperPrefix(c, k)) => ret'.outcome = "PrefixConflict"
           /\ (\A k \in stored : ~IsPrefix(k, c) /\ ~IsPrefix(c, k)) =>
                /\ ret'.outcome = "ok"
                /\ c \in DOMAIN tree'
                /\ tree'[c].value = call'.symbol]_vars

(* C4: on a tree holding at least one codeword, decode(seq, pos) returns   *)
(* (x, pos + len(c)) exactly when seq from pos starts with the stored      *)
(* codeword c of x; it fails with IncompleteSequence when the input ends   *)
(* before a leaf is reached and with SymbolNotInTree when the current      *)
(* input symbol has no matching child edge.                                *)
C4_DecodeContract ==
  (state = "Tree" /\ call.op = "tree_decode" /\ StoredCodes(tree) # {}) =>
    LET hits == {c \in StoredCodes(tree) : StartsWith(call.chan, call.position, c)}
        rest == Rest(call.chan, call.position)
    IN  /\ \A c \in hits : /\ ret.outcome = "ok"
                           /\ ret.symbol = tree[c].value
                           /\ ret.position = call.position + Len(c)
        /\ ret.outcome = "ok" =>
             \E c \in hits : ret.symbol = tree[c].value /\ ret.position = call.position + Len(c)
        /\ (hits = {} /\ \E c \in StoredCodes(tree) : IsProperPrefix(rest, c)) =>
             ret.outcome = "IncompleteSequence"
        /\ (hits = {} /\ ~\E c \in StoredCodes(tree) : IsProperPrefix(rest, c)) =>
             ret.outcome = "SymbolNotInTree"

----------------------------------------------------------------------------
(* Claims about the coder (SpecCoder, SpecAccess) *)

Consistent == state = "TableAndTreeConsistent"

TableMap(table) == {<<table[i].key, table[i].code>> : i \in 1..Len(table)}

TreeMap(t) == {<<t[node].value, node>> : node \in StoredCodes(t)}

RECURSIVE ConcatCodes(_, _)
ConcatCodes(table, message) ==
  IF Len(message) = 0 THEN <<>>
  ELSE DictGet(table, Head(message)) \o ConcatCodes(table, Tail(message))

RECURSIVE IsConcatenation(_, _)
IsConcatenation(encoded, codewords) ==
  \/ Len(encoded) = 0
  \/ \E c \in codewords : /\ Len(c) > 0
                          /\ IsPrefix(c, encoded)
                          /\ IsConcatenation(SubSeq(encoded, Len(c) + 1, Len(encoded)), codewords)

(* C1: for every constructed coder and every message over its source       *)
(* alphabet, the empty message included, decode(encode(m)) = m.  Stated    *)
(* for the messages whose symbols all have a codeword in the table.        *)
C1_RoundTrip ==
  (Consistent /\ call.op = "encode" /\ Len(code_table) > 0
     /\ \A i \in 1..Len(call.src) : /\ call.src[i] \in Range(source_alphabet)
                                    /\ DictHas(code_table, call.src[i])) =>
    /\ ret.outcome = "ok"
    /\ decode(tree, ret.chan) = [outcome |-> "ok", src |-> call.src]

(* C5: decode(e) returns a result only when e is a concatenation of whole  *)
(* codewords; otherwise the call fails with DecodeFailure and returns no   *)
(* symbols at all.                                                         *)
C5_DecodeAllOrNothing ==
  (Consistent /\ call.op = "decode") =>
    /\ ret.outcome = "ok" => IsConcatenation(call.chan, StoredCodes(tree))
    /\ ~IsConcatenation(call.chan, StoredCodes(tree)) =>
         (ret.outcome = "DecodeFailure" /\ ret.src = <<>>)

(* C6 as stated: on every constructed coder, a message all of whose        *)
(* symbols have a table entry (the empty message included) encodes to the  *)
(* in-order concatenation of its codewords; any other message fails with   *)
(* UnknownSymbol.                                                          *)
C6_EncodeContract ==
  (Consistent /\ call.op = "encode") =>
    IF \A i \in 1..Len(call.src) : DictHas(code_table, call.src[i])
    THEN ret.outcome = "ok" /\ ret.chan = ConcatCodes(code_table, call.src)
    ELSE ret.outcome = "UnknownSymbol"

(* C6 amended: the contract of C6 holds on every constructed coder whose   *)
(* code table is non-empty; on a constructed coder whose code table is     *)
(* empty every encode call, of the empty message too, fails with           *)
(* RuntimeError "Code table not built".                                    *)
C6_EncodeContractOnBuiltTable ==
  (Consistent /\ call.op = "encode") =>
    IF Len(code_table) = 0
    THEN ret.outcome = "TableNotBuilt" /\ ret.chan = <<>>
    ELSE IF \A i \in 1..Len(call.src) : DictHas(code_table, call.src[i])
    THEN ret.outcome = "ok" /\ ret.chan = ConcatCodes(code_table, call.src)
    ELSE ret.outcome = "UnknownSymbol"

C6_Witness ==
  /\ Consistent
  /\ call.op = "encode"
  /\ Len(call.src) = 2
  /\ call.src[1] # call.src[2]
  /\ ret.outcome = "ok"
  /\ DictGet(code_table, call.src[1]) # DictGet(code_table, call.src[2])
  /\ Len(ret.chan) >= 2

(* C7: every encode and decode call, successful or failed, leaves the      *)
(* coder's tree, code table and alphabets unchanged, and its result is     *)
(* the one the coder's table and tree determine.                           *)
C7_CallsLeaveCoderUnchanged ==
  [][(call'.op \in {"encode", "decode"}) =>
       /\ UNCHANGED coder
       /\ call'.op = "encode" =>
            (ret'.outcome = encode(code_table, call'.src).outcome
               /\ ret'.chan = encode(code_table, call'.src).chan)
       /\ call'.op = "decode" =>
            (ret'.outcome = decode(tree, call'.chan).outcome
               /\ ret'.src = decode(tree, call'.chan).src)]_vars

C7_Witness ==
  /\ Consistent
  /\ call.op = "encode"
  /\ ret.outcome = "UnknownSymbol"
  /\ Len(code_table) > 0

(* C8: once the constructor has returned, no public operation, including   *)
(* operations on the objects the accessors return, changes the coder's     *)
(* tree or code table.                                                     *)
C8_ImmutableAfterConstruction ==
  [][Consistent => (tree' = tree /\ code_table' = code_table)]_vars

(* C9: after a successful construction the table maps s to c if and only   *)
(* if the tree has a node with value s at path c.  Stated for the trees    *)
(* in which no node holds both a value and children.                       *)
C9_TableAgreesWithTree ==
  (Consistent /\ \A node \in DOMAIN tree :
                   ~(tree[node].value # None /\ Len(tree[node].children) > 0)) =>
    TableMap(code_table) = TreeMap(tree)

(* C10 as stated: a build step that populated the tree or the table ends   *)
(* in a coder that has both, and construction fails with BuildIncomplete   *)
(* only when the build step populated neither.                             *)
C10_DerivesMissingHalf ==
  (call.op = "init" /\ ret.outcome \notin {"EmptyAlphabet", "PrefixConflict"}) =>
    /\ (tree # NoTree \/ Len(code_table) > 0) => (Consistent /\ tree # NoTree)
    /\ ret.outcome = "BuildIncomplete" => (tree = NoTree /\ Len(code_table) = 0)

(* C10 amended: the base constructor only derives the table from the tree. *)
(* Construction fails with BuildIncomplete exactly when the build step     *)
(* leaves the tree unset, also when it populated the table; a build step   *)
(* that starts from a table has to call _build_tree_from_table itself.     *)
(* When construction succeeds the tree exists and the table is the one     *)
(* collected from it.                                                      *)
C10_TreeRequired ==
  (call.op = "init" /\ ret.outcome # "EmptyAlphabet") =>
    /\ ret.outcome = "BuildIncomplete" <=> tree = NoTree
    /\ call.variant \in {"table_only", "pass"} => ret.outcome = "BuildIncomplete"
    /\ Consistent <=> ret.outcome = "ok"
    /\ Consistent =>
         /\ tree # NoTree
         /\ code_table = collect_codes_from_node(tree, <<>>, <<>>, <<>>)

C10_Witness ==
  /\ call.op = "init"
  /\ call.variant = "table_only"
  /\ Len(code_table) > 0
  /\ tree = NoTree
  /\ state = "Failed"
  /\ ret.outcome = "BuildIncomplete"

----------------------------------------------------------------------------
(* Claims about rebuilding a table through a tree (SpecRebuild) *)

PrefixFree(codes) ==
  \A i \in 1..Len(codes) : \A j \in 1..Len(codes) : i # j => ~IsPrefix(codes[i], codes[j])

TableCodes(table) == [i \in 1..Len(table) |-> table[i].code]

(* C11: for every non-empty code table T whose codewords are pairwise      *)
(* prefix-free, building a tree from T and then rebuilding the table from  *)
(* that tree succeeds and yields a table equal to T as a mapping from      *)
(* symbols to codewords.                                                   *)
C11_RebuildGivesSameTable ==
  [][(state = "TableGiven" /\ Len(code_table) > 0 /\ PrefixFree(TableCodes(code_table))) =>
       /\ state' = "Rebuilt"
       /\ ret'.outcome = "ok"
       /\ TableMap(code_table') = TableMap(code_table)]_vars

C11_Witness ==
  /\ state = "Rebuilt"
  /\ call.op = "rebuild"
  /\ Len(code_table) = 3
  /\ PrefixFree(TableCodes(code_table))
  /\ \E i \in 1..3 : Len(code_table[i].code) = 2
  /\ \E i \in 1..3 : Len(code_table[i].code) = 1

----------------------------------------------------------------------------
(* Claims about the order of insertions (SpecOrder) *)

Reordered(L, p) == [i \in 1..Len(L) |-> L[p[i]]]

(* C12: for any finite set of (codeword, symbol) pairs whose codewords are  *)
(* pairwise prefix-free, inserting the pairs into an empty tree succeeds   *)
(* for every pair in every order, and the trees of any two orders give the *)
(* same decode result (symbol and new position, or the same failure) on    *)
(* every sequence and position.                                            *)
C12_OrderIndependent ==
  (state \in {"Inserted", "InsertFailed"} /\ PrefixFree(TableCodes(code_table))) =>
    /\ state = "Inserted"
    /\ \A p \in Permutations(1..Len(code_table)) :
         LET other == InsertItems(EmptyTree, Reordered(code_table, p), 1)
         IN  /\ other.outcome = "ok"
             /\ \A sequence \in EncodedSequences : \A position \in 0..Len(sequence) :
                  tree_decode(tree, sequence, position)
                    = tree_decode(other.tree, sequence, position)

C12_Witness ==
  /\ state = "Inserted"
  /\ Len(code_table) = 2
  /\ PrefixFree(TableCodes(code_table))
  /\ code_table[1].key # code_table[2].key
  /\ tree # InsertItems(EmptyTree, Reordered(code_table, <<2, 1>>), 1).tree
  /\ tree_decode(tree, <<"1", "0", "1">>, 1).outcome = "ok"
  /\ tree_decode(tree, <<"1", "0", "1">>, 0).outcome = "ok"

----------------------------------------------------------------------------
(* Claims about coders built from a distribution (SpecDistribution) *)

BuiltFromDistribution ==
  /\ state = "TableAndTreeConsistent"
  /\ subclass.kind \in {"HuffmanNgramCoder", "ShannonFanoEliasBinaryCoder"}

(* C13: in the code table of every successfully built Huffman n-gram coder *)
(* and Shannon-Fano-Elias coder, for all distinct symbols x and y,         *)
(* codeword(x) is not a prefix of codeword(y).                             *)
C13_TablesArePrefixFree ==
  BuiltFromDistribution =>
    \A i \in 1..Len(code_table) : \A j \in 1..Len(code_table) :
      code_table[i].key # code_table[j].key
        => ~IsPrefix(code_table[i].code, code_table[j].code)

C13_Witness ==
  /\ BuiltFromDistribution
  /\ subclass.kind = "HuffmanNgramCoder"
  /\ Len(code_table) = 9
  /\ \E i \in 1..9 : Len(code_table[i].code) = 1
  /\ \E i \in 1..9 : Len(code_table[i].code) > 3

InvalidProbabilities(probabilities) ==
  \/ \E i \in 1..Len(probabilities) : probabilities[i].p <= 0
  \/ Abs(Sum(probabilities, 1) - One) * AbsTolInverse > One

ConstructorCalled == call.op \in {"HuffmanNgramCoder", "ShannonFanoEliasBinaryCoder"}

NothingBuilt ==
  /\ state = "Failed"
  /\ subclass = NoSubclass
  /\ source_alphabet = <<>>
  /\ code_table = <<>>
  /\ tree = NoTree

(* C14 as stated: constructing HuffmanNgramCoder or                         *)
(* ShannonFanoEliasBinaryCoder with a distribution that contains a          *)
(* probability <= 0, or whose sum differs from 1.0 by more than 1e-6,       *)
(* fails with InvalidDistribution before any n-gram table, code table or    *)
(* tree is built.                                                           *)
C14_InvalidDistributionRejected ==
  (ConstructorCalled /\ InvalidProbabilities(call.probabilities)) =>
    ret.outcome = "InvalidDistribution" /\ NothingBuilt

(* C14 amended: the statement of C14 holds for ShannonFanoEliasBinaryCoder  *)
(* and for HuffmanNgramCoder given a block size n >= 1; with n < 1 the      *)
(* Huffman constructor fails with InvalidBlockSize, whatever the            *)
(* distribution, and builds nothing either.                                 *)
C14_InvalidDistributionRejectedForValidBlockSize ==
  (ConstructorCalled /\ InvalidProbabilities(call.probabilities)) =>
    /\ NothingBuilt
    /\ IF call.op = "HuffmanNgramCoder" /\ call.n < 1
       THEN ret.outcome = "InvalidBlockSize"
       ELSE ret.outcome = "InvalidDistribution"

C14_Witness ==
  /\ call.op = "HuffmanNgramCoder"
  /\ call.n = 2
  /\ Len(call.probabilities) = 3
  /\ Sum(call.probabilities, 1) = One
  /\ \E i \in 1..3 : call.probabilities[i].p < 0
  /\ ret.outcome = "InvalidDistribution"
  /\ NothingBuilt

----------------------------------------------------------------------------
(* Claims about encode_text and decode_text (SpecText) *)

OverOriginalAlphabet(text) ==
  \A i \in 1..Len(text) : text[i] \in Range(Keys(subclass.probs))

(* C15: for every Huffman n-gram coder (any n >= 1) and every finite text   *)
(* over the original, unpadded alphabet, of any length including 0,         *)
(* multiple of n or not, encode_text succeeds and decode_text of its        *)
(* result returns exactly the text.                                         *)
C15_DecodeTextInvertsEncodeText ==
  [][(call.op = "encode_text" /\ OverOriginalAlphabet(call.src)) =>
       /\ ret.outcome = "ok"
       /\ (call'.op = "decode_text" /\ call'.chan = ret.chan) =>
            (ret'.outcome = "ok" /\ ret'.src = call.src)]_vars

C15_Witness ==
  /\ call.op = "decode_text"
  /\ ret.outcome = "ok"
  /\ subclass.n = 2
  /\ Len(subclass.probs) = 2
  /\ Len(ret.src) = 1
  /\ OverOriginalAlphabet(ret.src)
  /\ Len(call.chan) > 0
  /\ encode_text(code_table, subclass.n, ret.src).chan = call.chan

----------------------------------------------------------------------------
(* Claims about the expected code length (SpecDistribution) *)

HuffmanBuilt == state = "TableAndTreeConsistent" /\ subclass.kind = "HuffmanNgramCoder"

(* Kraft's inequality: a binary prefix code with these codeword lengths     *)
(* exists exactly when the sum of 2^(-length) is at most 1.                 *)
RECURSIVE KraftSum(_, _, _)
KraftSum(lengths, i, longest) ==
  IF i > Len(lengths) THEN 0
  ELSE Power(2, longest - lengths[i]) + KraftSum(lengths, i + 1, longest)

Kraft(lengths, longest) == KraftSum(lengths, 1, longest) <= Power(2, longest)

(* The probability-weighted sum of the lengths, over the n-grams in the     *)
(* order of the code table                                                  *)
RECURSIVE LengthsCost(_, _)
LengthsCost(lengths, i) ==
  IF i > Len(lengths) THEN ZeroVec(subclass.n)
  ELSE VecAdd(VecScale(NgramP(subclass.ngram_p, code_table[i].key), lengths[i]),
              LengthsCost(lengths, i + 1))

(* C16: for the n-gram distribution the coder computed, no binary prefix    *)
(* code over the same n-grams has a smaller probability-weighted sum of     *)
(* codeword lengths than the built code table.  Checked for tables of up    *)
(* to MaxCompared n-grams against every assignment of lengths that          *)
(* satisfies Kraft's inequality, lengths up to the number of n-grams.       *)
C16_HuffmanIsOptimal ==
  (HuffmanBuilt /\ Len(code_table) <= MaxCompared) =>
    LET m == Len(code_table)
    IN  \A lengths \in [1..m -> 0..m] :
          Kraft(lengths, m) =>
            ~VecLess(LengthsCost(lengths, 1), expected_code_length(subclass, code_table))

C16_Witness ==
  /\ HuffmanBuilt
  /\ Len(code_table) = 4
  /\ Len(subclass.probs) = 3
  /\ \E i \in 1..4 : Len(code_table[i].code) = 1
  /\ \E i \in 1..4 : Len(code_table[i].code) = 3
  /\ VecLess(expected_code_length(subclass, code_table), LengthsCost(<<2, 2, 2, 2>>, 1))

----------------------------------------------------------------------------
(* Claims about entropy and efficiency (SpecDistribution).  A quantity that *)
(* depends on pad_p is a vector c over 0..n standing for the sum of         *)
(* c[k] * (1 - pad_p)^(n-k) * pad_p^k; a number K is the vector             *)
(* K * Binomial(n, k) and K * pad_p the vector K * Binomial(n-1, k-1).      *)
(* Vectors are compared coefficient by coefficient from k = 0, pad_p being  *)
(* 1e-10 and the coefficients below 1e9.                                    *)

RECURSIVE Binomial(_, _)
Binomial(n, k) ==
  IF k < 0 \/ k > n THEN 0
  ELSE IF k = 0 THEN 1
  ELSE Binomial(n - 1, k - 1) + Binomial(n - 1, k)

FormVecPositive(d) ==
  \E k \in DOMAIN d : /\ \A j \in DOMAIN d : j < k => FormIsZero(d[j])
                      /\ FormPositive(d[k])

FormVecNonNegative(d) == (\A k \in DOMAIN d : FormIsZero(d[k])) \/ FormVecPositive(d)

(* n * total^n * One * (expected_code_length_per_symbol - entropy + 1e-9) *)
AboveEntropy ==
  LET n == subclass.n
      T == Power(subclass.total, n)
      L == expected_code_length(subclass, code_table)
  IN  [k \in 0..n |->
         FormSub(FormConst(L[k] * One + T * One * n * 10 * Binomial(n - 1, k - 1)),
                 FormScale(entropy(subclass), T * n * Binomial(n, k)))]

(* n * total^n * One * (entropy + 1/n + slack * 1e-10 - expected_code_length_per_symbol) *)
BelowEntropyPlus(slack) ==
  LET n == subclass.n
      T == Power(subclass.total, n)
      L == expected_code_length(subclass, code_table)
  IN  [k \in 0..n |->
         FormSub(FormAdd(FormScale(entropy(subclass), T * n * Binomial(n, k)),
                         FormConst(T * One * Binomial(n, k)
                                     + T * One * n * slack * Binomial(n - 1, k - 1))),
                 FormConst(L[k] * One))]

(* C17 as stated: for every valid distribution and every block size n >= 1, *)
(* expected_code_length_per_symbol is >= entropy - 1e-9 and < entropy + 1/n,*)
(* entropy being taken over the original unscaled distribution.            *)
C17_PerSymbolLengthWithinEntropyBounds ==
  HuffmanBuilt => FormVecNonNegative(AboveEntropy) /\ FormVecPositive(BelowEntropyPlus(0))

(* C17 amended: for every valid distribution whose probabilities sum to 1   *)
(* and every block size n >= 1, expected_code_length_per_symbol is          *)
(* >= entropy - 1e-9 and < entropy + 1/n + 1e-8.                            *)
C17_PerSymbolLengthWithinWidenedBounds ==
  (HuffmanBuilt /\ subclass.total = One) =>
    FormVecNonNegative(AboveEntropy) /\ FormVecPositive(BelowEntropyPlus(100))

C17_Witness ==
  /\ HuffmanBuilt
  /\ subclass.total = One
  /\ subclass.n = 2
  /\ Len(subclass.probs) = 3
  /\ ~FormIsZero(entropy(subclass))
  /\ FormPositive(AboveEntropy[0])
  /\ FormPositive(BelowEntropyPlus(0)[0])

(* 1 / 1e-6, the tolerance of the efficiency comparison *)
EfficiencyTolInverse == 1000000

CanBuild(m) == m <= MaxBlock /\ Power(Len(subclass.probs) + 1, m) <= MaxNgrams

(* expected_code_length of the coder built from the same distribution with *)
(* block size m, as the one element of a set                               *)
LengthsForBlock(m) ==
  {expected_code_length(r.subclass, r.base.code_table) :
     r \in {huffman_init(m, subclass.probs)}}

(* coding_efficiency for block size m is known to be below                  *)
(* coding_efficiency for block size n minus 1e-6, the expected lengths      *)
(* Ln and Lm taken at their PAD-free coefficient.  With a / D and b / D     *)
(* the two per-symbol lengths over the common denominator D, the            *)
(* efficiency drops by more than 1e-6 exactly when                          *)
(* One * entropy * (b - a) > a * b * One / (D * 1e6).                       *)
EfficiencyDrops(n, Ln, m, Lm) ==
  LET T == subclass.total
      a == Ln[0] * m * Power(T, m - n)
      b == Lm[0] * n
      D == n * m * Power(T, m)
      bound == ((a * b) \div (EfficiencyTolInverse \div One)) \div D
  IN  /\ FormPositive(entropy(subclass))
      /\ b > a
      /\ FormPositive(FormSub(FormScale(entropy(subclass), b - a), FormConst(bound + 1)))

(* The expected length Ln for block size n, written for block size m > n:  *)
(* total^m * Ln, in the coefficients of (1 - pad_p)^(m-j) * pad_p^j         *)
RECURSIVE LiftSum(_, _, _, _)
LiftSum(Ln, k, extra, j) ==
  IF k < 0 THEN 0 ELSE Ln[k] * Binomial(extra, j - k) + LiftSum(Ln, k - 1, extra, j)

Lifted(n, Ln, m) ==
  [j \in 0..m |-> Power(subclass.total, m - n) * LiftSum(Ln, n, m - n, j)]

(* C18 as stated: for a fixed valid distribution and every n >= 1, the      *)
(* coding_efficiency for block size n+1 is >= the coding_efficiency for     *)
(* block size n minus 1e-6.                                                 *)
C18_EfficiencyGrowsWithEachBlockSize ==
  (HuffmanBuilt /\ CanBuild(subclass.n + 1)) =>
    \A Ln \in {expected_code_length(subclass, code_table)} :
      \A Lm \in LengthsForBlock(subclass.n + 1) :
        ~EfficiencyDrops(subclass.n, Ln, subclass.n + 1, Lm)

(* C18 amended: for a fixed valid distribution with no probability above 1, *)
(* every n >= 1 and every multiple m of n, the coding_efficiency for block  *)
(* size m is >= the coding_efficiency for block size n minus 1e-6: the      *)
(* expected length per symbol for m is at most the one for n, and the       *)
(* entropy that both efficiencies divide is not negative.                   *)
C18_EfficiencyGrowsWithMultiples ==
  (HuffmanBuilt /\ \A i \in 1..Len(subclass.probs) : subclass.probs[i].p <= One) =>
    \A m \in 1..MaxBlock :
      (m > subclass.n /\ m % subclass.n = 0 /\ CanBuild(m)) =>
        \A Ln \in {expected_code_length(subclass, code_table)} :
          \A Lm \in LengthsForBlock(m) :
            /\ ~VecLess(VecScale(Lifted(subclass.n, Ln, m), m), VecScale(Lm, subclass.n))
            /\ ~EfficiencyDrops(subclass.n, Ln, m, Lm)
            /\ ~FormNegative(entropy(subclass))

C18_Witness ==
  /\ HuffmanBuilt
  /\ subclass.n = 1
  /\ Len(subclass.probs) = 3
  /\ CanBuild(3)
  /\ FormPositive(entropy(subclass))
  /\ \E Lm \in LengthsForBlock(3) :
       VecLess(VecScale(Lm, 1),
               VecScale(Lifted(1, expected_code_length(subclass, code_table), 3), 3))

----------------------------------------------------------------------------
(* Claims about the degenerate distribution (SpecDistribution) *)

SingleSymbolCall ==
  /\ call.op = "HuffmanNgramCoder"
  /\ call.n >= 1
  /\ Len(call.probabilities) = 1
  /\ ~InvalidProbabilities(call.probabilities)

(* The n-gram made of the distribution's only symbol *)
SingleNgram == [i \in 1..call.n |-> call.probabilities[1].symbol]

(* C19 as stated: when a Huffman n-gram coder is constructed from a         *)
(* distribution with exactly one symbol, the resulting code table maps      *)
(* that single n-gram to an empty codeword.                                 *)
C19_SingleSymbolGetsEmptyCodeword ==
  SingleSymbolCall =>
    /\ HuffmanBuilt
    /\ \E i \in 1..Len(code_table) :
         code_table[i].key = SingleNgram /\ code_table[i].code = <<>>

(* C19 amended: the code table of such a coder has the 2^n n-grams over     *)
(* the symbol and PAD, none of them with an empty codeword, and maps the    *)
(* n-gram made of the symbol alone to a one-bit codeword.                   *)
C19_SingleSymbolGetsOneBit ==
  SingleSymbolCall =>
    /\ HuffmanBuilt
    /\ Len(code_table) = Power(2, call.n)
    /\ \A i \in 1..Len(code_table) :
         /\ Range(code_table[i].key) \subseteq {call.probabilities[1].symbol, PAD}
         /\ Len(code_table[i].code) >= 1
         /\ code_table[i].key = SingleNgram => Len(code_table[i].code) = 1
    /\ \E i \in 1..Len(code_table) : code_table[i].key = SingleNgram

C19_Witness ==
  /\ SingleSymbolCall
  /\ HuffmanBuilt
  /\ call.n = 3
  /\ Len(code_table) = 8
  /\ \E i \in 1..8 : code_table[i].key = SingleNgram /\ code_table[i].code = <<"1">>

----------------------------------------------------------------------------
(* Claims about Shannon-Fano-Elias codewords (SpecDistribution) *)

SFEBuilt == state = "TableAndTreeConsistent" /\ subclass.kind = "ShannonFanoEliasBinaryCoder"

(* 2 * One * F_bar(x) for the i-th symbol of the distribution: twice the    *)
(* sum of the probabilities before it, plus its own                         *)
TwiceFBar(probabilities, i) ==
  2 * Sum(SubSeq(probabilities, 1, i - 1), 1) + probabilities[i].p

(* j = ceil(-log2(w / One)): the least j >= 0 with 2^(-j) <= w / One *)
IsCeilNegLog2(j, w) ==
  /\ One <= w * Power(2, j)
  /\ j = 0 \/ w * Power(2, j - 1) < One

(* The b-th bit after the point of the binary expansion of num / den *)
ExpansionBit(num, den, b) ==
  IF ((num * Power(2, b)) \div den) % 2 = 1 THEN "1" ELSE "0"

FineValid(probabilities) ==
  /\ \A i \in 1..Len(probabilities) : probabilities[i].p > 0
  /\ Abs(Sum(probabilities, 1) - FineOne) <= FineOne \div AbsTolInverse

(* the binary fraction 0.c1 c2 ... cl, in units of 1 / 2^l *)
RECURSIVE Fraction(_)
Fraction(code) ==
  IF code = <<>> THEN 0
  ELSE 2 * Fraction(SubSeq(code, 1, Len(code) - 1)) + (IF code[Len(code)] = "1" THEN 1 ELSE 0)

(* num * 2^l / den as a whole part q and a remainder r < den *)
RECURSIVE Scaled(_, _, _)
Scaled(num, den, l) ==
  IF l <= 0 THEN [q |-> num \div den, r |-> num % den]
  ELSE LET half == Scaled(num, den, l - 1)
       IN  [q |-> 2 * half.q + (IF 2 * half.r >= den THEN 1 ELSE 0),
            r |-> (2 * half.r) % den]

(* F / FineOne <= 0.code < (F + p) / FineOne *)
InInterval(code, F, p) ==
  LET v == Fraction(code)
      low == Scaled(F, FineOne, Len(code))
      high == Scaled(F + p, FineOne, Len(code))
  IN  /\ low.q < v \/ (low.q = v /\ low.r = 0)
      /\ v < high.q \/ (v = high.q /\ high.r > 0)

C21_FineSFEBuildsIntervalCode ==
  (call.op = "ShannonFanoEliasBinaryCoder" /\ FineValid(call.probabilities))
    => /\ ret.outcome = "ok"
       /\ \A i \in 1..Len(call.probabilities) :
            /\ i <= Len(code_table)
            /\ InInterval(code_table[i].code, Cumulative(call.probabilities, i),
                          call.probabilities[i].p)
       /\ PrefixFree(TableCodes(code_table))

----------------------------------------------------------------------------
(* Claims about a failing insert_code (SpecInsert) *)

(* C28: an insert_code call that fails with PrefixConflict leaves the tree *)
(* exactly as it was before the call: it creates no node and changes no    *)
(* value, and so never leaves a childless node without a value.            *)
C28_FailedInsertLeavesTree ==
  [][(state = "Tree" /\ call'.op = "insert_code" /\ ret'.outcome = "PrefixConflict") =>
       /\ tree' = tree
       /\ \A node \in DOMAIN tree' :
            (node # <<>> /\ Len(tree'[node].children) = 0) => tree'[node].value # None]_vars

C28_Witness ==
  /\ state = "Tree"
  /\ call.op = "insert_code"
  /\ ret.outcome = "PrefixConflict"
  /\ \E stored \in StoredCodes(tree) : stored # call.chan /\ IsPrefix(stored, call.chan)

----------------------------------------------------------------------------
(* Claims about the loop of decode (SpecDecodeLoop) *)

(* C27: on every successfully constructed prefix coder, one whose tree     *)
(* stores the empty codeword at the root included, decode terminates on    *)
(* every finite channel sequence: each iteration of its loop that decodes  *)
(* a symbol strictly advances the position, so that the rest of the        *)
(* sequence, which is finite, shrinks with every iteration.                *)
C27_DecodeIterationAdvances ==
  [][(state = "Decoding" /\ state' = "Decoding") =>
       /\ ret'.position > ret.position
       /\ ret'.position <= Len(call.chan)]_vars

----------------------------------------------------------------------------
(* Claims about decode followed by encode (SpecRoundTrip) *)

(* C29: for every Huffman and Shannon-Fano-Elias coder and every channel   *)
(* sequence s on which decode succeeds, encode(decode(s)) = s.             *)
C29_EncodeInvertsDecode ==
  (state = "TableAndTreeConsistent" /\ call.op = "encode") =>
    /\ ret.outcome = "ok"
    /\ ret.chan = call.chan

C29_Witness ==
  /\ state = "TableAndTreeConsistent"
  /\ call.op = "encode"
  /\ Len(call.src) >= 2
  /\ call.src[1] # call.src[2]
  /\ ret.chan = call.chan
  /\ subclass.kind = "ShannonFanoEliasBinaryCoder"

----------------------------------------------------------------------------
(* Claims about the TrackingReceiver (SpecReceiver) *)

Stats == objects[receiver._stats]

(* C22: after a TrackingReceiver has processed any stream of messages,     *)
(* with any decoder and any logger, total_messages = decoded_messages +    *)
(* decode_errors: every received message is counted exactly once, either   *)
(* as decoded or as a decode error.                                        *)
C22_EachMessageCountedOnce ==
  [][call'.op = "receive_stream" =>
       LET before == objects[receiver._stats]
           after == objects'[receiver._stats]
       IN  /\ after.total_messages = before.total_messages + 1
           /\ (after.decoded_messages - before.decoded_messages)
                + (after.decode_errors - before.decode_errors) = 1]_vars

(* C23: when the receiver's logger has no check_message, every message     *)
(* that decodes without error counts as successful: after any stream,      *)
(* successful_messages = decoded_messages and validation_errors = 0.       *)
C23_DecodedIsSuccessfulWithoutCheck ==
  (receiver.kind = "TrackingReceiver" /\ ~has_check_message(logger)) =>
    /\ Stats.successful_messages = Stats.decoded_messages
    /\ Stats.validation_errors = 0

(* C24: get_stats returns a copy of the statistics: writing to the         *)
(* returned object leaves the receiver's statistics unchanged, and a later *)
(* receive_stream leaves an object returned before unchanged.              *)
C24_GetStatsReturnsCopy ==
  [][/\ call'.op = "write_stats" => objects'[receiver._stats] = objects[receiver._stats]
     /\ (call'.op = "receive_stream" /\ runner.stats # 0) =>
          objects'[runner.stats] = objects[runner.stats]]_vars

----------------------------------------------------------------------------
(* Claims about the FixedMessagesSender (SpecSender) *)

(* The k-th message since construction or the last reset: id k and the     *)
(* encoding of messages[k mod len(messages)], k being the number of        *)
(* messages yielded before this one                                        *)
YieldedInTurn ==
  LET k == runner.yielded
      source_data == sender._messages[(k % Len(sender._messages)) + 1]
  IN  /\ runner'.message.id = k
      /\ encode(code_table, source_data).outcome = "ok"
      /\ runner'.message.data = encode(code_table, source_data).chan

----------------------------------------------------------------------------
(* Claims about the ExperimentRunner (SpecExperiment) *)

(* C26: every run(num_messages = k) with k > 0 starts from reset receiver  *)
(* statistics: whatever runs came before, the statistics returned have     *)
(* total_messages = k and the metadata success_count + failure_count = k;  *)
(* a run with k <= 0 fails with ValueError before the receiver's           *)
(* statistics are reset.                                                   *)
C26_RunCountsItsOwnMessages ==
  [][/\ (call'.op = "run" /\ ret'.outcome = "running" /\ ret.outcome # "running") =>
          objects'[receiver'._stats] = TransmissionStats
     /\ (call'.op = "run" /\ ret'.outcome = "ok") =>
          /\ call'.n > 0
          /\ objects'[runner'.result.stats].total_messages = call'.n
          /\ runner'.result.success_count + runner'.result.failure_count = call'.n
     /\ (call'.op = "run" /\ call'.n <= 0) =>
          /\ ret'.outcome = "ValueError"
          /\ receiver' = receiver
          /\ objects' = objects]_vars

C26_Witness ==
  /\ runner.kind = "ExperimentRunner"
  /\ call.op = "run"
  /\ ret.outcome = "ok"
  /\ call.n = 1
  /\ Len(objects) = 3
  /\ objects[2].total_messages = 2
  /\ runner.result.failure_count = 1

(* The events logged for the message with the given id, in order *)
RECURSIVE EventsOf(_, _)
EventsOf(logs, id) ==
  IF Len(logs) = 0 THEN <<>>
  ELSE (IF Head(logs).message.id = id THEN <<Head(logs).event>> ELSE <<>>)
         \o EventsOf(Tail(logs), id)

EventOrders ==
  {<<"SOURCE_GENERATED", "ENCODED", "TRANSMITTED", "RECEIVED", last>> :
     last \in {"DECODED", "ERROR"}}

(* C30: in a run whose FixedMessagesSender, NoiselessChannel and           *)
(* TrackingReceiver share one logger, the events of each message are       *)
(* logged in the order SOURCE_GENERATED, ENCODED, TRANSMITTED, RECEIVED,   *)
(* then exactly one of DECODED or ERROR, and every event of message k is   *)
(* logged before any event of message k + 1.  While a message is under way *)
(* its events are the first ones of that order.                            *)
C30_EventsInPipelineOrder ==
  runner.kind = "ExperimentRunner" =>
    /\ \A i \in 1..Len(logger.logs) : \A j \in i..Len(logger.logs) :
         logger.logs[i].message.id <= logger.logs[j].message.id
    /\ \A id \in 0..MaxSent :
         \E order \in EventOrders : IsPrefix(EventsOf(logger.logs, id), order)
    /\ (runner.pc = "idle" /\ ret.outcome = "ok") =>
         \A id \in (sender._message_id - call.n)..(sender._message_id - 1) :
           EventsOf(logger.logs, id) \in EventOrders \/ logger.kind = "NullLogger"

====
